---- MODULE Spec2Model ----
(***************************************************************************)
(* Model of the compress package (pooled zlib writers and readers, the two *)
(* dispatch paths of WriteDeflateLevel, WriteInflate and the byte-slice    *)
(* wrappers) of the deflate middleware.                                     *)
(*                                                                         *)
(* Bytes are integers 0..255, byte slices are sequences.  The zlib codec   *)
(* the package calls (compress/zlib over compress/flate) is modelled at    *)
(* byte and bit level for the inputs enumerated here: the two-byte header  *)
(* with its level-dependent FLEVEL field, stored and fixed-Huffman blocks, *)
(* the final empty stored block written by Close and the Adler-32 trailer. *)
(***************************************************************************)
EXTENDS Integers, Sequences, FiniteSets, TLC

\* ------------------------------------------------------------------------
\* Bounds of the model
\* ------------------------------------------------------------------------

\* longest payload handed to a compress call
MaxLen == 2

\* levels handed to normalizeCompressLevel range over -LevelSpan..LevelSpan
LevelSpan == 60

\* a destination of another kind fails at its Write call 1..MaxFailAt, or never
MaxFailAt == 2

\* ------------------------------------------------------------------------
\* Program constants
\* ------------------------------------------------------------------------

CompressDefaultCompression == 6

\* number of pools built by newCompressWriterPoolMap
NumPools == 12

\* flate/zlib level constants used by the package
HuffmanOnly == -2
BestCompression == 9
DefaultCompression == -1

\* ------------------------------------------------------------------------
\* Byte and bit helpers
\* ------------------------------------------------------------------------

\* binds a computed value to a name: F is applied to the value of v
With(v, F(_)) == F(v)

RECURSIVE Pow2(_)
Pow2(n) == IF n = 0 THEN 1 ELSE 2 * Pow2(n - 1)

\* the n low bits of v, least significant first
RECURSIVE BitsLSB(_, _)
BitsLSB(v, n) == IF n = 0 THEN << >> ELSE <<v % 2>> \o BitsLSB(v \div 2, n - 1)

\* the n low bits of v, most significant first (Huffman codes)
RECURSIVE BitsMSB(_, _)
BitsMSB(v, n) == IF n = 0 THEN << >> ELSE BitsMSB(v \div 2, n - 1) \o <<v % 2>>

\* value of a bit sequence read least significant first
RECURSIVE ValLSB(_)
ValLSB(bits) == IF bits = << >> THEN 0 ELSE Head(bits) + 2 * ValLSB(Tail(bits))

\* value of a bit sequence read most significant first
RECURSIVE ValMSB(_)
ValMSB(bits) ==
    IF bits = << >> THEN 0
    ELSE 2 * ValMSB(SubSeq(bits, 1, Len(bits) - 1)) + bits[Len(bits)]

RECURSIVE BytesToBits(_)
BytesToBits(bs) ==
    IF bs = << >> THEN << >> ELSE BitsLSB(Head(bs), 8) \o BytesToBits(Tail(bs))

\* pads the last byte with zero bits, as huffmanBitWriter.flush does
RECURSIVE BitsToBytes(_)
BitsToBytes(bits) ==
    IF bits = << >> THEN << >>
    ELSE IF Len(bits) < 8
         THEN <<ValLSB(bits)>>
         ELSE <<ValLSB(SubSeq(bits, 1, 8))>> \o BitsToBytes(SubSeq(bits, 9, Len(bits)))

PadToByte(bits) ==
    bits \o [i \in 1..((8 - (Len(bits) % 8)) % 8) |-> 0]

RECURSIVE AdlerA(_)
AdlerA(bs) ==
    IF bs = << >> THEN 1
    ELSE (AdlerA(SubSeq(bs, 1, Len(bs) - 1)) + bs[Len(bs)]) % 65521

RECURSIVE AdlerB(_)
AdlerB(bs) ==
    IF bs = << >> THEN 0
    ELSE (AdlerB(SubSeq(bs, 1, Len(bs) - 1)) + AdlerA(bs)) % 65521

\* the Adler-32 checksum, as the four big-endian bytes of the zlib trailer
Adler32Bytes(bs) ==
    <<AdlerB(bs) \div 256, AdlerB(bs) % 256, AdlerA(bs) \div 256, AdlerA(bs) % 256>>

\* ------------------------------------------------------------------------
\* compress/zlib writer, as called by acquireRealDeflateWriter, Write, Close
\* ------------------------------------------------------------------------

NilErr == "nil"
ErrLevel == "zlib: invalid compression level"
ErrWriterClosed == "flate: write to closed writer"
ErrHeader == "zlib: invalid header"
ErrDictionary == "zlib: invalid dictionary"
ErrChecksum == "zlib: invalid checksum"
ErrUnexpectedEOF == "unexpected EOF"
ErrCorrupt == "flate: corrupt input"
ErrDstWrite == "destination write failed"
ErrDstClosed == "destination closed"
Unmodelled == "dynamic Huffman block (not modelled)"

ValidLevel(level) == level >= HuffmanOnly /\ level <= BestCompression

\* the FLEVEL field zlib.Writer.writeHeader derives from the level
FLevel(level) ==
    CASE level \in {-2, 0, 1} -> 0
      [] level \in {2, 3, 4, 5} -> 1
      [] level \in {6, -1} -> 2
      [] OTHER -> 3

\* CMF = 0x78, FLG = FLEVEL<<6 plus the check bits making CMF*256+FLG = 0 mod 31
ZlibHeader(level) ==
    LET flg == FLevel(level) * 64
    IN  <<120, flg + (31 - ((120 * 256 + flg) % 31))>>

\* levels whose compressor emits a small input as a stored block:
\* NoCompression (store), BestSpeed (encSpeed, at most 16 bytes) and
\* HuffmanOnly (writeBlockHuff falls back to a stored block)
StoresSmallInput(level) == level \in {-2, 0, 1}

\* fixed Huffman code of a literal/length symbol, most significant bit first
FixedCode(sym) ==
    CASE sym <= 143 -> BitsMSB(48 + sym, 8)
      [] sym <= 255 -> BitsMSB(400 + (sym - 144), 9)
      [] sym <= 279 -> BitsMSB(sym - 256, 7)
      [] OTHER -> BitsMSB(192 + (sym - 280), 8)

RECURSIVE FixedLiterals(_)
FixedLiterals(p) ==
    IF p = << >> THEN << >> ELSE FixedCode(Head(p)) \o FixedLiterals(Tail(p))

\* a stored block appended to the bits written so far
StoredBlockBits(bits, final, p) ==
    PadToByte(bits \o <<final, 0, 0>>)
        \o BytesToBits(<<Len(p) % 256, Len(p) \div 256,
                         255 - (Len(p) % 256), 255 - (Len(p) \div 256)>> \o p)

\* a fixed-Huffman block of literals, closed by the end-of-block symbol
FixedBlockBits(bits, final, p) ==
    bits \o <<final, 1, 0>> \o FixedLiterals(p) \o FixedCode(256)

\* what compressor.close emits for the bytes still in the window: one data
\* block (none for an empty window), then the final empty stored block
DeflateBody(level, window) ==
    LET data == IF window = << >> THEN << >>
                ELSE IF StoresSmallInput(level)
                     THEN StoredBlockBits(<< >>, 0, window)
                     ELSE FixedBlockBits(<< >>, 0, window)
    IN  BitsToBytes(StoredBlockBits(data, 1, << >>))

\* zlib.NewWriterLevel: a writer bound to destination w, or an error
NewWriterLevel(w, level) ==
    IF ValidLevel(level)
    THEN [zw |-> [level |-> level, w |-> w, wroteHeader |-> FALSE,
                  window |-> << >>, closed |-> FALSE, err |-> NilErr],
          err |-> NilErr]
    ELSE [zw |-> "nil", err |-> ErrLevel]

\* zlib.Writer.Reset if it changed the destination and kept the stream state
ZwResetDestinationOnly(zw, w) == [zw EXCEPT !.w = w]

\* zlib.Writer.Reset: same level, new destination, all stream state cleared
ZwReset(zw, w) ==
    [zw EXCEPT !.w = w, !.wroteHeader = FALSE, !.window = << >>,
               !.closed = FALSE, !.err = NilErr]

\* zlib.Writer.Write: header on first use, then the payload is buffered by
\* the compressor; out is what reaches zw.w during the call
ZwWrite(zw, p) ==
    LET hdr == IF zw.wroteHeader THEN << >> ELSE ZlibHeader(zw.level)
        z1  == [zw EXCEPT !.wroteHeader = TRUE]
    IN  IF zw.err # NilErr
        THEN [zw |-> z1, out |-> hdr, n |-> 0, err |-> zw.err]
        ELSE IF p = << >>
        THEN [zw |-> z1, out |-> hdr, n |-> 0, err |-> NilErr]
        ELSE IF zw.closed
        THEN [zw |-> [z1 EXCEPT !.err = ErrWriterClosed], out |-> hdr,
              n |-> 0, err |-> ErrWriterClosed]
        ELSE [zw |-> [z1 EXCEPT !.window = zw.window \o p], out |-> hdr,
              n |-> Len(p), err |-> NilErr]

\* zlib.Writer.Close: header if still missing, the deflate blocks of the
\* buffered bytes, the final block and the Adler-32 of the bytes written
ZwClose(zw) ==
    LET hdr == IF zw.wroteHeader THEN << >> ELSE ZlibHeader(zw.level)
        z1  == [zw EXCEPT !.wroteHeader = TRUE]
    IN  IF zw.err # NilErr
        THEN [zw |-> z1, out |-> hdr, err |-> zw.err]
        ELSE IF zw.closed
        THEN [zw |-> z1, out |-> hdr \o Adler32Bytes(<< >>), err |-> NilErr]
        ELSE [zw |-> [z1 EXCEPT !.window = << >>, !.closed = TRUE],
              out |-> hdr \o DeflateBody(zw.level, zw.window)
                          \o Adler32Bytes(zw.window),
              err |-> NilErr]

\* a whole zlib stream of payload p at a valid level
ZlibStream(level, p) ==
    ZlibHeader(level) \o DeflateBody(level, p) \o Adler32Bytes(p)

\* ------------------------------------------------------------------------
\* compress/zlib reader, as called by acquireFlateReader and CopyZeroAlloc
\* ------------------------------------------------------------------------

Min(a, b) == IF a < b THEN a ELSE b

\* zlib reader Reset (also run by zlib.NewReader): reads and checks the
\* header; pos is the number of bytes consumed
ZrReadHeader(src) ==
    IF Len(src) < 2 THEN [err |-> ErrUnexpectedEOF, pos |-> Len(src)]
    ELSE IF src[1] % 16 # 8 \/ src[1] \div 16 > 7
            \/ (src[1] * 256 + src[2]) % 31 # 0
    THEN [err |-> ErrHeader, pos |-> 2]
    ELSE IF (src[2] \div 32) % 2 = 1
    THEN IF Len(src) < 6 THEN [err |-> ErrUnexpectedEOF, pos |-> Len(src)]
         ELSE IF SubSeq(src, 3, 6) # Adler32Bytes(<< >>)
         THEN [err |-> ErrDictionary, pos |-> 6]
         ELSE [err |-> NilErr, pos |-> 6]
    ELSE [err |-> NilErr, pos |-> 2]

\* length of a match from its length symbol 257..285: base and extra bits
LengthBase(sym) ==
    CASE sym < 265 -> sym - 254
      [] sym < 269 -> sym * 2 - 519
      [] sym < 273 -> sym * 4 - 1057
      [] sym < 277 -> sym * 8 - 2149
      [] sym < 281 -> sym * 16 - 4365
      [] sym < 285 -> sym * 32 - 8861
      [] OTHER -> 258

LengthExtra(sym) ==
    CASE sym < 265 -> 0
      [] sym < 269 -> 1
      [] sym < 273 -> 2
      [] sym < 277 -> 3
      [] sym < 281 -> 4
      [] sym < 285 -> 5
      [] OTHER -> 0

\* number of extra bits of distance code d (4..29)
DistExtra(d) == (d - 2) \div 2

\* copies n bytes from dist back, byte by byte: a copy that overlaps itself
\* repeats the last dist bytes
CopyMatch(out, dist, n) ==
    out \o [i \in 1..n |-> out[Len(out) - dist + 1 + ((i - 1) % dist)]]

\* one symbol of the fixed literal/length code read at bit offset pos;
\* sym = -1 when the input ends inside the code
FixedSym(bits, pos) ==
    IF pos + 7 > Len(bits) THEN [sym |-> -1, pos |-> pos]
    ELSE LET v7 == ValMSB(SubSeq(bits, pos + 1, pos + 7))
         IN  IF v7 <= 23 THEN [sym |-> 256 + v7, pos |-> pos + 7]
             ELSE IF pos + 8 > Len(bits) THEN [sym |-> -1, pos |-> pos]
             ELSE LET v8 == 2 * v7 + bits[pos + 8]
                  IN  IF v8 <= 191 THEN [sym |-> v8 - 48, pos |-> pos + 8]
                      ELSE IF v8 <= 199
                      THEN [sym |-> 280 + (v8 - 192), pos |-> pos + 8]
                      ELSE IF pos + 9 > Len(bits) THEN [sym |-> -1, pos |-> pos]
                      ELSE [sym |-> 144 + (2 * v8 + bits[pos + 9] - 400),
                            pos |-> pos + 9]

\* the match that follows length symbol sym: extra length bits, the 5-bit
\* distance code, its extra bits, then the copy
FixedMatch(bits, pos, out, sym) ==
    LET ne == LengthExtra(sym)
    IN  IF pos + ne + 5 > Len(bits)
        THEN [out |-> out, err |-> ErrUnexpectedEOF, pos |-> pos]
        ELSE
        LET length == LengthBase(sym) + ValLSB(SubSeq(bits, pos + 1, pos + ne))
            p1 == pos + ne
            d  == ValMSB(SubSeq(bits, p1 + 1, p1 + 5))
            p2 == p1 + 5
        IN  IF d >= 30 THEN [out |-> out, err |-> ErrCorrupt, pos |-> p2]
            ELSE
            LET nb == IF d < 4 THEN 0 ELSE DistExtra(d)
            IN  IF p2 + nb > Len(bits)
                THEN [out |-> out, err |-> ErrUnexpectedEOF, pos |-> p2]
                ELSE
                LET dist == IF d < 4 THEN d + 1
                            ELSE Pow2(nb + 1) + 1 + (d % 2) * Pow2(nb)
                                 + ValLSB(SubSeq(bits, p2 + 1, p2 + nb))
                IN  IF dist > Len(out)
                    THEN [out |-> out, err |-> ErrCorrupt, pos |-> p2 + nb]
                    ELSE [out |-> CopyMatch(out, dist, length), err |-> NilErr,
                          pos |-> p2 + nb]

\* the symbols of one fixed-Huffman block, up to its end-of-block symbol
RECURSIVE FixedBlock(_, _, _)
FixedBlock(bits, pos, out) ==
    LET s == FixedSym(bits, pos)
    IN  IF s.sym = -1 THEN [out |-> out, err |-> ErrUnexpectedEOF, pos |-> pos]
        ELSE IF s.sym < 256 THEN FixedBlock(bits, s.pos, out \o <<s.sym>>)
        ELSE IF s.sym = 256 THEN [out |-> out, err |-> NilErr, pos |-> s.pos]
        ELSE IF s.sym > 285 THEN [out |-> out, err |-> ErrCorrupt, pos |-> s.pos]
        ELSE LET m == FixedMatch(bits, s.pos, out, s.sym)
             IN  IF m.err # NilErr THEN m ELSE FixedBlock(bits, m.pos, m.out)

\* a stored block whose 3 header bits end at bit offset pos: skip to the byte
\* boundary, LEN and NLEN, then LEN raw bytes (as many as the input holds)
StoredBlock(bits, pos, out) ==
    LET p1 == pos + ((8 - (pos % 8)) % 8)
    IN  IF p1 + 32 > Len(bits)
        THEN [out |-> out, err |-> ErrUnexpectedEOF, pos |-> Len(bits)]
        ELSE
        LET n    == ValLSB(SubSeq(bits, p1 + 1, p1 + 16))
            nn   == ValLSB(SubSeq(bits, p1 + 17, p1 + 32))
            have == Min(n, (Len(bits) - (p1 + 32)) \div 8)
            data == [i \in 1..have |->
                       ValLSB(SubSeq(bits, p1 + 32 + 8 * (i - 1) + 1,
                                     p1 + 32 + 8 * i))]
        IN  IF nn # 65535 - n
            THEN [out |-> out, err |-> ErrCorrupt, pos |-> p1 + 32]
            ELSE [out |-> out \o data,
                  err |-> IF have < n THEN ErrUnexpectedEOF ELSE NilErr,
                  pos |-> p1 + 32 + 8 * have]

\* the deflate blocks from bit offset pos up to and including the final one
RECURSIVE InflateBlocks(_, _, _)
InflateBlocks(bits, pos, out) ==
    IF pos + 3 > Len(bits)
    THEN [out |-> out, err |-> ErrUnexpectedEOF, pos |-> pos]
    ELSE
    LET final == bits[pos + 1]
        typ   == bits[pos + 2] + 2 * bits[pos + 3]
        blk   == CASE typ = 0 -> StoredBlock(bits, pos + 3, out)
                   [] typ = 1 -> FixedBlock(bits, pos + 3, out)
                   [] typ = 2 -> [out |-> out, err |-> Unmodelled, pos |-> pos + 3]
                   [] OTHER   -> [out |-> out, err |-> ErrCorrupt, pos |-> pos + 3]
    IN  IF blk.err # NilErr \/ final = 1 THEN blk
        ELSE InflateBlocks(bits, blk.pos, blk.out)

\* everything Read delivers for a source whose header was accepted: the
\* bytes decoded (also those decoded before an error) and the error that
\* ends the stream; the Adler-32 trailer is read at the next byte boundary
ZrReadAll(src, hdrLen) ==
    LET body == SubSeq(src, hdrLen + 1, Len(src))
        r    == InflateBlocks(BytesToBits(body), 0, << >>)
        at   == (r.pos + 7) \div 8
    IN  IF r.err # NilErr THEN [out |-> r.out, err |-> r.err]
        ELSE IF at + 4 > Len(body) THEN [out |-> r.out, err |-> ErrUnexpectedEOF]
        ELSE IF SubSeq(body, at + 1, at + 4) # Adler32Bytes(r.out)
        THEN [out |-> r.out, err |-> ErrChecksum]
        ELSE [out |-> r.out, err |-> NilErr]

\* ------------------------------------------------------------------------
\* State
\* ------------------------------------------------------------------------

VARIABLES
    realDeflateWriterPoolMap,       \* pool index -> idle *zlib.Writer
    stacklessDeflateWriterPoolMap,  \* pool index -> idle stackless.Writer
    flateReaderPool,                \* idle zlib readers
    call,                           \* the last call made and what it returned
    conc,                           \* concurrent callers, the job queue and its workers
    srv,                            \* the request the server middleware is handling
    mw,                             \* the middlewares built and the options they point to
    cli                             \* the request the client middleware is sending

vars == <<realDeflateWriterPoolMap, stacklessDeflateWriterPoolMap,
          flateReaderPool, call, conc, srv, mw, cli>>

\* ------------------------------------------------------------------------
\* Pools, destinations, level normalisation
\* ------------------------------------------------------------------------

newCompressWriterPoolMap == [i \in 0..(NumPools - 1) |-> << >>]

\* sync.Pool.Get either takes an idle object (its position in the pool) or,
\* from an empty pool, returns nil (0)
GetChoices(pool) == IF pool = << >> THEN {0} ELSE 1..Len(pool)

Remove(pool, i) == SubSeq(pool, 1, i - 1) \o SubSeq(pool, i + 1, Len(pool))

\* variant of normalizeCompressLevel without the range check
normalizeNoRangeCheck(level) == level + 2

\* variant of normalizeCompressLevel that substitutes flate.DefaultCompression
normalizeToFlateDefault(level) ==
    IF level < -2 \/ level > 9 THEN DefaultCompression + 2 ELSE level + 2

normalizeCompressLevel(level) ==
    LET l == IF level < -2 \/ level > 9 THEN CompressDefaultCompression ELSE level
    IN  l + 2

\* destinations WriteDeflateLevel treats as non-blocking
NonBlockingKinds == {"byteSliceWriter", "bytes.Buffer", "ByteBuffer"}

\* a destination: the bytes it holds, the Write calls it has seen, and the
\* Write call that fails (0: none; only a writer of another kind can fail)
NewDst(kind, b, failAt) ==
    [kind |-> kind, b |-> b, writes |-> 0, failAt |-> failAt]

\* variant of the Write of a destination that replaces the contents
DstWriteOverwrite(w, p) ==
    [w |-> [w EXCEPT !.b = p, !.writes = @ + 1], n |-> Len(p), err |-> NilErr]

\* Write on the destination: byteSliceWriter (and the other in-memory
\* writers) append and never fail; a broken destination fails every Write,
\* the first with one error and the later ones with another
DstWrite(w, p) ==
    IF w.kind = "broken"
    THEN [w |-> [w EXCEPT !.writes = @ + 1], n |-> 0,
          err |-> IF w.writes = 0 THEN ErrDstWrite ELSE ErrDstClosed]
    ELSE IF w.kind \notin NonBlockingKinds /\ w.failAt = w.writes + 1
    THEN [w |-> [w EXCEPT !.writes = @ + 1], n |-> 0, err |-> ErrDstWrite]
    ELSE [w |-> [w EXCEPT !.b = @ \o p, !.writes = @ + 1],
          n |-> Len(p), err |-> NilErr]

\* bytes a zlib.Writer emits reach the call's destination only if the
\* writer is bound to it ("call"); a writer still bound to the destination
\* of an earlier call ("stale") writes there instead
Emit(w, zwDst, bytes) ==
    IF zwDst = "call" /\ bytes # << >> THEN DstWrite(w, bytes).w ELSE w

\* ------------------------------------------------------------------------
\* acquireRealDeflateWriter / releaseRealDeflateWriter
\* ------------------------------------------------------------------------

\* variant of acquireRealDeflateWriter whose Get leaves the writer in the pool
acquireWithoutRemove(realMap, i, w, level) ==
    IF i = 0
    THEN [zw |-> IF NewWriterLevel(w, level).err # NilErr
                 THEN NewWriterLevel(w, IF level < HuffmanOnly THEN HuffmanOnly
                                        ELSE BestCompression).zw
                 ELSE NewWriterLevel(w, level).zw,
          realMap |-> realMap]
    ELSE [zw |-> ZwReset(realMap[normalizeCompressLevel(level)][i], w),
          realMap |-> realMap]

\* i is what Get returned from the pool of the normalised level
acquireRealDeflateWriter(realMap, i, w, level) ==
    IF i = 0
    THEN [zw |-> IF NewWriterLevel(w, level).err # NilErr
                 THEN NewWriterLevel(w, IF level < HuffmanOnly THEN HuffmanOnly
                                        ELSE BestCompression).zw
                 ELSE NewWriterLevel(w, level).zw,
          realMap |-> realMap]
    ELSE [zw |-> ZwReset(realMap[normalizeCompressLevel(level)][i], w),
          realMap |-> [realMap EXCEPT
                         ![normalizeCompressLevel(level)] = Remove(@, i)]]

\* variant of releaseRealDeflateWriter that picks the pool by the level of
\* the writer, not by the level of the call
releaseByWriterLevel(realMap, zw, level) ==
    With(ZwClose(zw), LAMBDA c :
        [realMap |-> [realMap EXCEPT
                        ![zw.level + 2] = Append(@, [c.zw EXCEPT !.w = "stale"])],
         out |-> c.out])

\* variant of releaseRealDeflateWriter that puts the writer back unclosed
releaseWithoutClose(realMap, zw, level) ==
    [realMap |-> [realMap EXCEPT
                    ![normalizeCompressLevel(level)] =
                        Append(@, [zw EXCEPT !.w = "stale"])],
     out |-> << >>]

\* Close, then Put into the pool of the normalised level; out is what Close
\* emitted. The pooled writer stays bound to a destination that is no
\* longer the destination of any later call.
releaseRealDeflateWriter(realMap, zw, level) ==
    With(ZwClose(zw), LAMBDA c :
        [realMap |-> [realMap EXCEPT
                        ![normalizeCompressLevel(level)] =
                            Append(@, [c.zw EXCEPT !.w = "stale"])],
         out |-> c.out])

\* nonblockingWriteDeflate, run through stacklessWriteDeflate: the Write
\* error is dropped
nonblockingWriteDeflate(realMap, i, w, p, level) ==
    With(acquireRealDeflateWriter(realMap, i, "call", level), LAMBDA a :
    With(ZwWrite(a.zw, p), LAMBDA wr :
    With(releaseRealDeflateWriter(a.realMap, wr.zw, level), LAMBDA r :
        [realMap |-> r.realMap,
         w |-> Emit(Emit(w, a.zw.w, wr.out), a.zw.w, r.out),
         zwLevel |-> a.zw.level])))

\* ------------------------------------------------------------------------
\* stackless.Writer, as used by the default branch of WriteDeflateLevel
\* ------------------------------------------------------------------------

\* writer.do after the operation ran on the inner zlib.Writer (which writes
\* into the buffer xw): an error of the operation is returned at once;
\* otherwise the buffered bytes go to dstW in one Write, whose error is the
\* result, and the buffer is emptied
SwDo(sw, w, opZw, opOut, opErr) ==
    With(IF opZw.w = "xw" THEN sw.xw \o opOut ELSE sw.xw, LAMBDA xw :
        IF opErr # NilErr
        THEN [sw |-> [sw EXCEPT !.zw = opZw, !.xw = xw], w |-> w, err |-> opErr]
        ELSE IF xw = << >> \/ sw.dstW # "call"
        THEN [sw |-> [sw EXCEPT !.zw = opZw, !.xw = << >>], w |-> w,
              err |-> NilErr]
        ELSE With(DstWrite(w, xw), LAMBDA d :
                [sw |-> [sw EXCEPT !.zw = opZw, !.xw = << >>], w |-> d.w,
                 err |-> d.err]))

\* variant of SwWrite that counts the bytes the zlib.Writer emitted
SwWriteCountsEmitted(sw, w, p) ==
    With(ZwWrite(sw.zw, p), LAMBDA op :
    With(SwDo(sw, w, op.zw, op.out, op.err), LAMBDA d :
        [sw |-> d.sw, w |-> d.w, n |-> Len(op.out), err |-> d.err]))

SwWrite(sw, w, p) ==
    With(ZwWrite(sw.zw, p), LAMBDA op :
    With(SwDo(sw, w, op.zw, op.out, op.err), LAMBDA d :
        [sw |-> d.sw, w |-> d.w, n |-> op.n, err |-> d.err]))

SwClose(sw, w) ==
    With(ZwClose(sw.zw), LAMBDA op : SwDo(sw, w, op.zw, op.out, op.err))

\* writer.Reset: empty the buffer, reset the inner writer onto it, then
\* bind the new destination
SwReset(sw, w) ==
    [sw EXCEPT !.zw = ZwReset(sw.zw, "xw"), !.xw = << >>, !.dstW = "call"]

\* j is what Get returned from the stackless pool; i is what Get returns
\* from the real pool if a new stackless writer has to be built around a
\* writer from acquireRealDeflateWriter
AcquireStacklessDeflateWriter(stacklessMap, realMap, j, i, w, level) ==
    IF j = 0
    THEN With(acquireRealDeflateWriter(realMap, i, "xw", level), LAMBDA a :
            [sw |-> [zw |-> a.zw, xw |-> << >>, dstW |-> "call"],
             stacklessMap |-> stacklessMap, realMap |-> a.realMap])
    ELSE [sw |-> SwReset(stacklessMap[normalizeCompressLevel(level)][j], w),
          stacklessMap |-> [stacklessMap EXCEPT
                              ![normalizeCompressLevel(level)] = Remove(@, j)],
          realMap |-> realMap]

\* Close (its error is dropped), then Put into the pool of the normalised
\* level
releaseStacklessDeflateWriter(stacklessMap, sw, w, level) ==
    With(SwClose(sw, w), LAMBDA c :
        [stacklessMap |-> [stacklessMap EXCEPT
                             ![normalizeCompressLevel(level)] =
                                 Append(@, [c.sw EXCEPT !.dstW = "stale"])],
         w |-> c.w, closeErr |-> c.err])

\* ------------------------------------------------------------------------
\* WriteDeflateLevel, AppendDeflateBytesLevel
\* ------------------------------------------------------------------------

\* j, i: what the Get calls on the stackless and the real pool return.
\* Besides the results (n, err) and the pools, the record tells the level
\* of the zlib.Writer used and the error of the dropped Close.
WriteDeflateLevel(stacklessMap, realMap, j, i, w, p, level) ==
    IF w.kind \in NonBlockingKinds
    THEN With(nonblockingWriteDeflate(realMap, i, w, p, level), LAMBDA r :
            [stacklessMap |-> stacklessMap, realMap |-> r.realMap, w |-> r.w,
             n |-> Len(p), err |-> NilErr,
             zwLevel |-> r.zwLevel, closeErr |-> NilErr])
    ELSE With(AcquireStacklessDeflateWriter(stacklessMap, realMap, j, i, w, level),
              LAMBDA a :
         With(SwWrite(a.sw, w, p), LAMBDA wr :
         With(releaseStacklessDeflateWriter(a.stacklessMap, wr.sw, wr.w, level),
              LAMBDA r :
            [stacklessMap |-> r.stacklessMap, realMap |-> a.realMap, w |-> r.w,
             n |-> wr.n, err |-> wr.err,
             zwLevel |-> a.sw.zw.level, closeErr |-> r.closeErr])))

AppendDeflateBytesLevel(stacklessMap, realMap, j, i, dst, src, level) ==
    With(WriteDeflateLevel(stacklessMap, realMap, j, i,
                           NewDst("byteSliceWriter", dst, 0), src, level),
         LAMBDA r :
            [stacklessMap |-> r.stacklessMap, realMap |-> r.realMap,
             b |-> r.w.b, err |-> r.err, r |-> r])

\* ------------------------------------------------------------------------
\* acquireFlateReader / releaseFlateReader, WriteInflate, AppendInflateBytes
\* ------------------------------------------------------------------------

\* k is what flateReaderPool.Get returned. A new reader (zlib.NewReader) and
\* a pooled one (resetFlateReader) both start by reading the header of r; on
\* an error no reader is handed out, and a pooled one is not put back
acquireFlateReader(pool, k, r) ==
    With(ZrReadHeader(r), LAMBDA h :
        [ok |-> h.err = NilErr, err |-> h.err,
         pool |-> IF k = 0 THEN pool ELSE Remove(pool, k), pos |-> h.pos])

\* zr.Close keeps an error the reader ran into (other than io.EOF); the
\* reader is put back either way
releaseFlateReader(pool, readErr) == Append(pool, [err |-> readErr])

\* int(n) of the int64 n that the copy returns: the largest int of the
\* narrowest platform int (32 bits), beyond which int(n) wraps around
MaxInt == 2147483647

AsInt(n) == IF n <= MaxInt THEN n ELSE ((n - MaxInt) - 1) - MaxInt - 1

\* variant of CopyZeroAlloc that reports only the errors of the destination
CopyIgnoringReadError(w, src, pos) ==
    With(ZrReadAll(src, pos), LAMBDA rd :
    With(IF rd.out = << >> THEN [w |-> w, n |-> 0, err |-> NilErr]
         ELSE DstWrite(w, rd.out), LAMBDA d :
        [w |-> d.w, n |-> d.n, err |-> d.err, readErr |-> rd.err]))

\* utils.CopyZeroAlloc(network.NewWriter(w), zr): what the reader delivers
\* is written and flushed to w; a failed write ends the copy with its error,
\* otherwise the copy ends with the reader's error (nil at the end of the
\* stream)
CopyZeroAlloc(w, src, pos) ==
    With(ZrReadAll(src, pos), LAMBDA rd :
    With(IF rd.out = << >> THEN [w |-> w, n |-> 0, err |-> NilErr]
         ELSE DstWrite(w, rd.out), LAMBDA d :
        [w |-> d.w, n |-> d.n,
         err |-> IF d.err # NilErr THEN d.err ELSE rd.err,
         readErr |-> rd.err]))

\* variant of WriteInflate that returns the error of the reader's Close if
\* there is one
WriteInflateCloseErrorFirst(pool, k, w, p) ==
    With(acquireFlateReader(pool, k, p), LAMBDA a :
        IF ~a.ok
        THEN [pool |-> a.pool, w |-> w, n |-> 0, err |-> a.err,
              acquired |-> FALSE]
        ELSE With(CopyZeroAlloc(w, p, a.pos), LAMBDA c :
                [pool |-> releaseFlateReader(a.pool, c.readErr), w |-> c.w,
                 n |-> AsInt(c.n),
                 err |-> IF c.readErr # NilErr THEN c.readErr ELSE c.err,
                 acquired |-> TRUE]))

WriteInflate(pool, k, w, p) ==
    With(acquireFlateReader(pool, k, p), LAMBDA a :
        IF ~a.ok
        THEN [pool |-> a.pool, w |-> w, n |-> 0, err |-> a.err,
              acquired |-> FALSE]
        ELSE With(CopyZeroAlloc(w, p, a.pos), LAMBDA c :
                [pool |-> releaseFlateReader(a.pool, c.readErr), w |-> c.w,
                 n |-> IF AsInt(c.n) # c.n THEN 0 ELSE AsInt(c.n),
                 err |-> IF AsInt(c.n) # c.n THEN "too much data inflated"
                         ELSE c.err,
                 acquired |-> TRUE]))

AppendInflateBytes(pool, k, dst, src) ==
    With(WriteInflate(pool, k, NewDst("byteSliceWriter", dst, 0), src),
         LAMBDA r : [pool |-> r.pool, b |-> r.w.b, err |-> r.err, r |-> r])

\* ------------------------------------------------------------------------
\* Inputs of the calls
\* ------------------------------------------------------------------------

\* payloads: the prefixes, up to MaxLen bytes, of a message whose bytes
\* differ and take an 8-bit (104) and a 9-bit (200) fixed Huffman code
Message == <<104, 200, 104, 104, 200, 200>>

Payloads == {SubSeq(Message, 1, n) : n \in 0..MaxLen}

\* levels of the compress calls: below the range, the default level of the
\* package, above the range
Levels == {-3, 6, 10}

\* contents of dst before an Append call
Dsts == {<< >>, <<33>>}

NoCall ==
    [op |-> "none", kind |-> "none", dst |-> << >>, p |-> << >>, level |-> 0,
     failAt |-> 0, n |-> 0, err |-> NilErr, out |-> << >>, writes |-> 0,
     zwLevel |-> 0, closeErr |-> NilErr, acquired |-> FALSE, orig |-> << >>]

\* no concurrent callers, no request in the server
NoConc == [pc |-> << >>]
NoRequest == [pc |-> "none"]

\* no middleware built
NoMiddleware == [built |-> << >>]

\* no request in the client
NoClientRequest == [pc |-> "none"]

DeflateOps == {"AppendDeflateBytesLevel", "WriteDeflateLevel"}
InflateOps == {"AppendInflateBytes", "WriteInflate"}

\* ------------------------------------------------------------------------
\* Actions: one per exported call, plus the pools dropping idle objects
\* ------------------------------------------------------------------------

Init ==
    /\ realDeflateWriterPoolMap = newCompressWriterPoolMap
    /\ stacklessDeflateWriterPoolMap = newCompressWriterPoolMap
    /\ flateReaderPool = << >>
    /\ call = NoCall
    /\ conc = NoConc
    /\ srv = NoRequest
    /\ mw = NoMiddleware
    /\ cli = NoClientRequest

DoAppendDeflateBytesLevel ==
    \E dst \in Dsts, src \in Payloads, level \in Levels :
      \E i \in GetChoices(realDeflateWriterPoolMap[normalizeCompressLevel(level)]) :
        \E r \in {AppendDeflateBytesLevel(stacklessDeflateWriterPoolMap,
                                            realDeflateWriterPoolMap, 0, i,
                                            dst, src, level)} :
            /\ realDeflateWriterPoolMap' = r.realMap
            /\ stacklessDeflateWriterPoolMap' = r.stacklessMap
            /\ call' = [NoCall EXCEPT
                          !.op = "AppendDeflateBytesLevel",
                          !.kind = "byteSliceWriter", !.dst = dst, !.p = src,
                          !.level = level, !.n = r.r.n, !.err = r.err,
                          !.out = r.b, !.writes = r.r.w.writes,
                          !.zwLevel = r.r.zwLevel, !.orig = src]
            /\ UNCHANGED <<flateReaderPool,
                           conc, srv,
                   mw, cli>>

DoWriteDeflateLevel ==
    \E kind \in {"bytes.Buffer", "other"}, p \in Payloads, level \in Levels :
      \E failAt \in (IF kind = "other" THEN 0..MaxFailAt ELSE {0}),
         j \in GetChoices(stacklessDeflateWriterPoolMap[normalizeCompressLevel(level)]),
         i \in GetChoices(realDeflateWriterPoolMap[normalizeCompressLevel(level)]) :
        \E r \in {WriteDeflateLevel(stacklessDeflateWriterPoolMap,
                                      realDeflateWriterPoolMap, j, i,
                                      NewDst(kind, << >>, failAt), p, level)} :
            /\ realDeflateWriterPoolMap' = r.realMap
            /\ stacklessDeflateWriterPoolMap' = r.stacklessMap
            /\ call' = [NoCall EXCEPT
                          !.op = "WriteDeflateLevel", !.kind = kind, !.p = p,
                          !.level = level, !.failAt = failAt, !.n = r.n,
                          !.err = r.err, !.out = r.w.b, !.writes = r.w.writes,
                          !.zwLevel = r.zwLevel, !.closeErr = r.closeErr,
                          !.orig = p]
            /\ UNCHANGED <<flateReaderPool,
                           conc, srv,
                   mw, cli>>

\* the bytes the last compress call appended to its destination
Compressed == SubSeq(call.out, Len(call.dst) + 1, Len(call.out))

\* AppendInflateBytes on what the preceding AppendDeflateBytesLevel returned
DoRoundTrip ==
    /\ call.op = "AppendDeflateBytesLevel"
    /\ \E dst \in Dsts, k \in GetChoices(flateReaderPool) :
        \E r \in {AppendInflateBytes(flateReaderPool, k, dst, Compressed)} :
            /\ flateReaderPool' = r.pool
            /\ call' = [NoCall EXCEPT
                          !.op = "AppendInflateBytes",
                          !.kind = "byteSliceWriter", !.dst = dst,
                          !.p = Compressed, !.n = r.r.n,
                          !.err = r.err, !.out = r.b, !.writes = r.r.w.writes,
                          !.acquired = r.r.acquired, !.orig = call.p]
            /\ UNCHANGED <<realDeflateWriterPoolMap, stacklessDeflateWriterPoolMap,
                           conc, srv,
                   mw, cli>>

\* sync.Pool may drop an idle object at any time
EvictRealWriter ==
    /\ \E n \in DOMAIN realDeflateWriterPoolMap :
        \E i \in 1..Len(realDeflateWriterPoolMap[n]) :
          realDeflateWriterPoolMap' =
              [realDeflateWriterPoolMap EXCEPT ![n] = Remove(@, i)]
    /\ UNCHANGED <<stacklessDeflateWriterPoolMap, flateReaderPool, call,
                   conc, srv,
                   mw, cli>>

EvictStacklessWriter ==
    /\ \E n \in DOMAIN stacklessDeflateWriterPoolMap :
        \E j \in 1..Len(stacklessDeflateWriterPoolMap[n]) :
          stacklessDeflateWriterPoolMap' =
              [stacklessDeflateWriterPoolMap EXCEPT ![n] = Remove(@, j)]
    /\ UNCHANGED <<realDeflateWriterPoolMap, flateReaderPool, call,
                   conc, srv,
                   mw, cli>>

EvictReader ==
    /\ \E k \in 1..Len(flateReaderPool) :
          flateReaderPool' = Remove(flateReaderPool, k)
    /\ UNCHANGED <<realDeflateWriterPoolMap, stacklessDeflateWriterPoolMap, call,
                   conc, srv,
                   mw, cli>>

Next ==
    \/ DoAppendDeflateBytesLevel
    \/ DoWriteDeflateLevel
    \/ DoRoundTrip
    \/ EvictRealWriter
    \/ EvictStacklessWriter
    \/ EvictReader

Spec == Init /\ [][Next]_vars

\* ------------------------------------------------------------------------
\* Decompression of arbitrary input: SpecInflate
\* ------------------------------------------------------------------------

\* levels whose streams are fed to the decompressor: one that stores the
\* payload and one that Huffman-codes it
StreamLevels == {0, 6}

LongestPayload == SubSeq(Message, 1, MaxLen)

\* what is added to a byte to damage it
Damage == {1}

\* s itself, s cut short at every length (the empty input included), s with
\* one byte damaged, and s followed by a byte that is not part of it
Mangle(s) ==
    {s}
      \cup {SubSeq(s, 1, n) : n \in 0..(Len(s) - 1)}
      \cup {[s EXCEPT ![i] = (s[i] + d) % 256] : i \in 1..Len(s), d \in Damage}
      \cup {s \o <<0>>}

\* the streams of every payload, and the mangled streams of the longest one
InflateInputs ==
    {ZlibStream(l, p) : l \in StreamLevels, p \in Payloads}
      \cup UNION {Mangle(ZlibStream(l, LongestPayload)) : l \in StreamLevels}

DoAppendInflateBytes ==
    \E dst \in Dsts, src \in InflateInputs, k \in GetChoices(flateReaderPool) :
      \E r \in {AppendInflateBytes(flateReaderPool, k, dst, src)} :
        /\ flateReaderPool' = r.pool
        /\ call' = [NoCall EXCEPT
                      !.op = "AppendInflateBytes", !.kind = "byteSliceWriter",
                      !.dst = dst, !.p = src, !.n = r.r.n, !.err = r.err,
                      !.out = r.b, !.writes = r.r.w.writes,
                      !.acquired = r.r.acquired]
        /\ UNCHANGED <<realDeflateWriterPoolMap, stacklessDeflateWriterPoolMap,
                       conc, srv,
                   mw, cli>>

DoWriteInflate ==
    \E kind \in {"other"}, p \in InflateInputs,
       k \in GetChoices(flateReaderPool) :
      \E failAt \in 0..1 :
        \E r \in {WriteInflate(flateReaderPool, k,
                               NewDst(kind, << >>, failAt), p)} :
          /\ flateReaderPool' = r.pool
          /\ call' = [NoCall EXCEPT
                        !.op = "WriteInflate", !.kind = kind, !.p = p,
                        !.failAt = failAt, !.n = r.n, !.err = r.err,
                        !.out = r.w.b, !.writes = r.w.writes,
                        !.acquired = r.acquired]
          /\ UNCHANGED <<realDeflateWriterPoolMap, stacklessDeflateWriterPoolMap,
                         conc, srv,
                   mw, cli>>

NextInflate ==
    \/ DoAppendInflateBytes
    \/ DoWriteInflate
    \/ EvictReader

SpecInflate == Init /\ [][NextInflate]_vars

\* ------------------------------------------------------------------------
\* Calls whose destination fails: SpecErr
\* ------------------------------------------------------------------------

\* WriteDeflateLevel on a destination whose every Write fails
DoWriteDeflateBroken ==
    \E p \in Payloads, level \in Levels :
      \E j \in GetChoices(stacklessDeflateWriterPoolMap[normalizeCompressLevel(level)]),
         i \in GetChoices(realDeflateWriterPoolMap[normalizeCompressLevel(level)]) :
        \E r \in {WriteDeflateLevel(stacklessDeflateWriterPoolMap,
                                      realDeflateWriterPoolMap, j, i,
                                      NewDst("broken", << >>, 0), p, level)} :
            /\ realDeflateWriterPoolMap' = r.realMap
            /\ stacklessDeflateWriterPoolMap' = r.stacklessMap
            /\ call' = [NoCall EXCEPT
                          !.op = "WriteDeflateLevel", !.kind = "broken",
                          !.p = p, !.level = level, !.n = r.n,
                          !.err = r.err, !.out = r.w.b, !.writes = r.w.writes,
                          !.zwLevel = r.zwLevel, !.closeErr = r.closeErr,
                          !.orig = p]
            /\ UNCHANGED <<flateReaderPool, conc, srv,
                   mw, cli>>

NextErr ==
    \/ DoWriteDeflateBroken
    \/ DoWriteInflate

SpecErr == Init /\ [][NextErr]_vars

\* ------------------------------------------------------------------------
\* Level normalisation as a function of the level alone: SpecLevel
\* ------------------------------------------------------------------------

AllLevels == (-LevelSpan)..LevelSpan

InitLevel ==
    /\ realDeflateWriterPoolMap = newCompressWriterPoolMap
    /\ stacklessDeflateWriterPoolMap = newCompressWriterPoolMap
    /\ flateReaderPool = << >>
    /\ \E level \in AllLevels : call = [NoCall EXCEPT !.level = level]
    /\ conc = NoConc
    /\ srv = NoRequest
    /\ mw = NoMiddleware
    /\ cli = NoClientRequest

\* the lookup every acquire and release starts with
DoNormalize ==
    /\ call.op = "none"
    /\ call' = [call EXCEPT !.op = "normalizeCompressLevel",
                            !.n = normalizeCompressLevel(call.level)]
    /\ UNCHANGED <<realDeflateWriterPoolMap, stacklessDeflateWriterPoolMap, flateReaderPool,
                   conc, srv,
                   mw, cli>>

NextLevel == DoNormalize

SpecLevel == InitLevel /\ [][NextLevel]_vars

\* ------------------------------------------------------------------------
\* Concurrent callers: SpecConc
\* ------------------------------------------------------------------------

\* goroutines calling into the package at the same time
NumCallers == 3

\* worker goroutines of stackless.NewFunc (GOMAXPROCS in the library)
Workers == 1

\* capacity of the job channel of stackless.NewFunc (GOMAXPROCS*2048 in the
\* library)
QueueCap == 1

Callers == 1..NumCallers

\* callers on a plain io.Writer take the default branch of WriteDeflateLevel;
\* the others compress into a byte slice and decompress the result
KindOf(c) == IF c % 3 = 0 THEN "other" ELSE "byteSliceWriter"

\* levels above the range (pool 8), at the top of it (pool 11) and the
\* default (pool 8)
LevelOf(c) == IF c % 3 = 1 THEN 10 ELSE IF c % 3 = 2 THEN 9 ELSE 6

\* every caller has a payload of its own
PayloadOf(c) == <<100 + c, 200>>

NoObj == [id |-> 0]

\* identities of the objects a caller's operations construct: a zlib.Writer,
\* a stackless writer, a zlib reader
WriterId(c) == c
StacklessId(c) == NumCallers + c
ReaderId(c) == 2 * NumCallers + c

\* the identity of an object, the pool index it was created for and the
\* pool index of the call that released it last
Tagged(obj, id, n) == obj @@ [id |-> id, born |-> n, rel |-> -1]

\* the object with the given identity is marked as released by a call of
\* normalised level n, wherever Put placed it
MarkReleased(map, id, n) ==
    [x \in DOMAIN map |->
        [k \in DOMAIN map[x] |->
            IF map[x][k].id = id THEN [map[x][k] EXCEPT !.rel = n]
            ELSE map[x][k]]]

InitConc ==
    /\ realDeflateWriterPoolMap = newCompressWriterPoolMap
    /\ stacklessDeflateWriterPoolMap = newCompressWriterPoolMap
    /\ flateReaderPool = << >>
    /\ call = NoCall
    /\ srv = NoRequest
    /\ mw = NoMiddleware
    /\ cli = NoClientRequest
    /\ conc = [pc |-> [c \in Callers |-> "start"],
               b |-> [c \in Callers |-> << >>],
               held |-> [c \in Callers |-> NoObj],
               ran |-> [c \in Callers |-> FALSE],
               out |-> [c \in Callers |-> << >>],
               err |-> [c \in Callers |-> NilErr],
               lost |-> {},
               queue |-> << >>,
               worker |-> [w \in 1..Workers |->
                              [job |-> 0, pc |-> "idle", zw |-> NoObj]],
               made |-> {}]

\* WriteDeflateLevel on a byte slice: the job is handed to the function
\* stackless.NewFunc returned, which sends it on the job channel if the
\* channel has room and waits for it to be done; otherwise it gives the job
\* up and returns false, which stacklessWriteDeflate does not look at, and
\* WriteDeflateLevel returns (len(p), nil)
Submit(c) ==
    /\ conc.pc[c] = "start"
    /\ KindOf(c) \in NonBlockingKinds
    /\ IF Len(conc.queue) < QueueCap
       THEN conc' = [conc EXCEPT !.queue = Append(@, c), !.pc[c] = "waiting"]
       ELSE conc' = [conc EXCEPT !.pc[c] = "compressed"]
    /\ UNCHANGED <<realDeflateWriterPoolMap, stacklessDeflateWriterPoolMap,
                   flateReaderPool, call, srv,
                   mw, cli>>

\* a worker receives the next job from the channel
WorkerTake(w) ==
    /\ conc.worker[w].pc = "idle"
    /\ conc.queue # << >>
    /\ conc' = [conc EXCEPT !.queue = Tail(@),
                            !.worker[w].job = Head(conc.queue),
                            !.worker[w].pc = "acquire"]
    /\ UNCHANGED <<realDeflateWriterPoolMap, stacklessDeflateWriterPoolMap,
                   flateReaderPool, call, srv,
                   mw, cli>>

\* nonblockingWriteDeflate: acquireRealDeflateWriter(ctx.w, ctx.level)
WorkerAcquire(w) ==
    /\ conc.worker[w].pc = "acquire"
    /\ \E c \in {conc.worker[w].job} :
       \E i \in GetChoices(realDeflateWriterPoolMap[normalizeCompressLevel(LevelOf(c))]) :
       \E a \in {acquireRealDeflateWriter(realDeflateWriterPoolMap, i, "call",
                                          LevelOf(c))} :
          /\ realDeflateWriterPoolMap' = a.realMap
          /\ conc' = [conc EXCEPT
                        !.worker[w].zw =
                            IF i = 0
                            THEN Tagged(a.zw, WriterId(c),
                                        normalizeCompressLevel(LevelOf(c)))
                            ELSE a.zw,
                        !.worker[w].pc = "write",
                        !.made = IF i = 0 THEN @ \cup {WriterId(c)} ELSE @]
    /\ UNCHANGED <<stacklessDeflateWriterPoolMap, flateReaderPool, call, srv,
                   mw, cli>>

\* nonblockingWriteDeflate: zw.Write(ctx.p), its error dropped
WorkerWrite(w) ==
    /\ conc.worker[w].pc = "write"
    /\ \E c \in {conc.worker[w].job} :
       \E wr \in {ZwWrite(conc.worker[w].zw, PayloadOf(c))} :
          conc' = [conc EXCEPT
                     !.worker[w].zw = wr.zw,
                     !.worker[w].pc = "release",
                     !.b[c] = Emit(NewDst(KindOf(c), @, 0),
                                   conc.worker[w].zw.w, wr.out).b]
    /\ UNCHANGED <<realDeflateWriterPoolMap, stacklessDeflateWriterPoolMap,
                   flateReaderPool, call, srv,
                   mw, cli>>

\* nonblockingWriteDeflate: releaseRealDeflateWriter(zw, ctx.level); the
\* worker then reports the job done and the submitting call returns
WorkerRelease(w) ==
    /\ conc.worker[w].pc = "release"
    /\ \E c \in {conc.worker[w].job} :
       \E r \in {releaseRealDeflateWriter(realDeflateWriterPoolMap,
                                          conc.worker[w].zw, LevelOf(c))} :
          /\ realDeflateWriterPoolMap' =
                MarkReleased(r.realMap, conc.worker[w].zw.id,
                             normalizeCompressLevel(LevelOf(c)))
          /\ conc' = [conc EXCEPT
                        !.worker[w] = [job |-> 0, pc |-> "idle", zw |-> NoObj],
                        !.b[c] = Emit(NewDst(KindOf(c), @, 0),
                                      conc.worker[w].zw.w, r.out).b,
                        !.ran[c] = TRUE,
                        !.pc[c] = "compressed"]
    /\ UNCHANGED <<stacklessDeflateWriterPoolMap, flateReaderPool, call, srv,
                   mw, cli>>

\* WriteInflate on what the caller's compress call returned:
\* acquireFlateReader; a reader that fails on the header is not handed out
ReaderAcquire(c) ==
    /\ conc.pc[c] = "compressed"
    /\ KindOf(c) \in NonBlockingKinds
    /\ \E k \in GetChoices(flateReaderPool) :
       \E a \in {acquireFlateReader(flateReaderPool, k, conc.b[c])} :
          /\ flateReaderPool' = a.pool
          /\ conc' =
                IF a.ok
                THEN [conc EXCEPT
                        !.pc[c] = "copy",
                        !.held[c] = IF k = 0
                                    THEN [id |-> ReaderId(c), pos |-> a.pos]
                                    ELSE [id |-> flateReaderPool[k].id,
                                          pos |-> a.pos],
                        !.made = IF k = 0 THEN @ \cup {ReaderId(c)} ELSE @]
                ELSE [conc EXCEPT
                        !.pc[c] = "done", !.err[c] = a.err,
                        !.lost = IF k = 0 THEN @
                                 ELSE @ \cup {flateReaderPool[k].id}]
    /\ UNCHANGED <<realDeflateWriterPoolMap, stacklessDeflateWriterPoolMap,
                   call, srv,
                   mw, cli>>

\* WriteInflate: the copy, then releaseFlateReader
ReaderCopy(c) ==
    /\ conc.pc[c] = "copy"
    /\ \E cp \in {CopyZeroAlloc(NewDst("byteSliceWriter", << >>, 0), conc.b[c],
                                conc.held[c].pos)} :
          /\ flateReaderPool' =
                [k \in 1..(Len(flateReaderPool) + 1) |->
                    IF k <= Len(flateReaderPool) THEN flateReaderPool[k]
                    ELSE releaseFlateReader(flateReaderPool, cp.readErr)[k]
                           @@ [id |-> conc.held[c].id]]
          /\ conc' = [conc EXCEPT !.pc[c] = "done", !.held[c] = NoObj,
                                  !.out[c] = cp.w.b, !.err[c] = cp.err]
    /\ UNCHANGED <<realDeflateWriterPoolMap, stacklessDeflateWriterPoolMap,
                   call, srv,
                   mw, cli>>

\* the default branch of WriteDeflateLevel, run by the caller itself:
\* AcquireStacklessDeflateWriter(w, level)
SwAcquire(c) ==
    /\ conc.pc[c] = "start"
    /\ KindOf(c) \notin NonBlockingKinds
    /\ \E n \in {normalizeCompressLevel(LevelOf(c))} :
       \E j \in GetChoices(stacklessDeflateWriterPoolMap[n]),
          i \in GetChoices(realDeflateWriterPoolMap[n]) :
       \E a \in {AcquireStacklessDeflateWriter(stacklessDeflateWriterPoolMap,
                    realDeflateWriterPoolMap, j, i,
                    NewDst(KindOf(c), << >>, 0), LevelOf(c))} :
          /\ stacklessDeflateWriterPoolMap' = a.stacklessMap
          /\ realDeflateWriterPoolMap' = a.realMap
          /\ conc' = [conc EXCEPT
                        !.pc[c] = "swwrite",
                        !.held[c] =
                            IF j # 0 THEN a.sw
                            ELSE Tagged(
                                   [a.sw EXCEPT !.zw =
                                       IF i = 0
                                       THEN Tagged(a.sw.zw, WriterId(c), n)
                                       ELSE a.sw.zw],
                                   StacklessId(c), n),
                        !.made = IF j # 0 THEN @
                                 ELSE IF i = 0
                                 THEN @ \cup {StacklessId(c), WriterId(c)}
                                 ELSE @ \cup {StacklessId(c)}]
    /\ UNCHANGED <<flateReaderPool, call, srv,
                   mw, cli>>

\* zw.Write(p) on the stackless writer
SwWriteStep(c) ==
    /\ conc.pc[c] = "swwrite"
    /\ \E wr \in {SwWrite(conc.held[c], NewDst(KindOf(c), conc.b[c], 0),
                          PayloadOf(c))} :
          conc' = [conc EXCEPT !.pc[c] = "swrelease", !.held[c] = wr.sw,
                               !.b[c] = wr.w.b, !.err[c] = wr.err]
    /\ UNCHANGED <<realDeflateWriterPoolMap, stacklessDeflateWriterPoolMap,
                   flateReaderPool, call, srv,
                   mw, cli>>

\* releaseStacklessDeflateWriter(zw, level)
SwRelease(c) ==
    /\ conc.pc[c] = "swrelease"
    /\ \E r \in {releaseStacklessDeflateWriter(stacklessDeflateWriterPoolMap,
                    conc.held[c], NewDst(KindOf(c), conc.b[c], 0), LevelOf(c))} :
          /\ stacklessDeflateWriterPoolMap' =
                MarkReleased(r.stacklessMap, conc.held[c].id,
                             normalizeCompressLevel(LevelOf(c)))
          /\ conc' = [conc EXCEPT !.pc[c] = "done", !.held[c] = NoObj,
                                  !.b[c] = r.w.b, !.ran[c] = TRUE]
    /\ UNCHANGED <<realDeflateWriterPoolMap, flateReaderPool, call, srv,
                   mw, cli>>

NextConc ==
    \/ \E c \in Callers : Submit(c)
    \/ \E w \in 1..Workers : WorkerTake(w)
    \/ \E w \in 1..Workers : WorkerAcquire(w)
    \/ \E w \in 1..Workers : WorkerWrite(w)
    \/ \E w \in 1..Workers : WorkerRelease(w)
    \/ \E c \in Callers : ReaderAcquire(c)
    \/ \E c \in Callers : ReaderCopy(c)
    \/ \E c \in Callers : SwAcquire(c)
    \/ \E c \in Callers : SwWriteStep(c)
    \/ \E c \in Callers : SwRelease(c)

SpecConc == InitConc /\ [][NextConc]_vars

\* ------------------------------------------------------------------------
\* Server middleware: SpecSrv
\* ------------------------------------------------------------------------

\* strings are sequences of one-character strings
sEmpty == << >>
sDeflate == <<"d", "e", "f", "l", "a", "t", "e">>
sDeflateMixed == <<"D", "e", "f", "l", "a", "t", "e">>
sGzip == <<"g", "z", "i", "p">>
sGzipDeflate == <<"g", "z", "i", "p", ",", " ", "d", "e", "f", "l", "a", "t", "e">>
sStar == <<" ", "*", " ">>
sUpgrade == <<"U", "p", "g", "r", "a", "d", "e">>
sEventStream == <<"t", "e", "x", "t", "/", "e", "v", "e", "n", "t", "-", "s", "t", "r", "e", "a", "m">>
sAcceptEncoding == <<"A", "c", "c", "e", "p", "t", "-", "E", "n", "c", "o", "d", "i", "n", "g">>
sPng == <<".", "p", "n", "g">>
sGif == <<".", "g", "i", "f">>
sJpeg == <<".", "j", "p", "e", "g">>
sJpg == <<".", "j", "p", "g">>

\* strings.Contains
Contains(str, sub) ==
    \E i \in 0..(Len(str) - Len(sub)) : SubSeq(str, i + 1, i + Len(sub)) = sub

\* strings.HasPrefix
HasPrefix(str, pre) ==
    Len(pre) <= Len(str) /\ SubSeq(str, 1, Len(pre)) = pre

\* strings.TrimSpace
RECURSIVE TrimLeft(_)
TrimLeft(str) ==
    IF str # << >> /\ Head(str) = " " THEN TrimLeft(Tail(str)) ELSE str

RECURSIVE TrimRight(_)
TrimRight(str) ==
    IF str # << >> /\ str[Len(str)] = " "
    THEN TrimRight(SubSeq(str, 1, Len(str) - 1)) ELSE str

TrimSpace(str) == TrimRight(TrimLeft(str))

\* strings.EqualFold, on the letters that occur
ToLower(ch) ==
    CASE ch = "D" -> "d" [] ch = "E" -> "e" [] ch = "F" -> "f"
      [] ch = "L" -> "l" [] ch = "A" -> "a" [] ch = "T" -> "t"
      [] OTHER -> ch

EqualFold(a, b) ==
    /\ Len(a) = Len(b)
    /\ \A i \in 1..Len(a) : ToLower(a[i]) = ToLower(b[i])

\* filepath.Ext: the suffix from the last dot of the last element on
RECURSIVE ExtFrom(_, _)
ExtFrom(path, i) ==
    IF i < 1 \/ path[i] = "/" THEN << >>
    ELSE IF path[i] = "." THEN SubSeq(path, i, Len(path))
    ELSE ExtFrom(path, i - 1)

Ext(path) == ExtFrom(path, Len(path))

\* regexp.MatchString for a pattern that is a literal, anchored at the start
\* ("^lit") or not ("lit")
MatchString(reg, str) ==
    IF reg.anchored THEN HasPrefix(str, reg.lit) ELSE Contains(str, reg.lit)

\* URI.RequestURI: the path and, after a "?", the query string
RequestURI(uri) ==
    IF uri.query = << >> THEN uri.path ELSE uri.path \o <<"?">> \o uri.query

\* ExcludedExtensions.Contains, ExcludedPaths.Contains,
\* ExcludedPathRegexes.Contains
ExtensionsContain(e, target) == target \in e
PathsContain(e, requestURI) == \E path \in e : HasPrefix(requestURI, path)
RegexesContain(e, requestURI) == \E reg \in e : MatchString(reg, requestURI)

DefaultExcludedExtensions == {sPng, sGif, sJpeg, sJpg}

\* DefaultOptions, and what the With... options make of it
DefaultOptions ==
    [ExcludedExtensions |-> DefaultExcludedExtensions, ExcludedPaths |-> {},
     ExcludedPathRegexes |-> {}, DecompressFn |-> "nil"]

WithExcludedPaths(o, args) == [o EXCEPT !.ExcludedPaths = args]
WithExcludedPathRegexes(o, args) == [o EXCEPT !.ExcludedPathRegexes = args]
WithDecompressFn(o, fn) == [o EXCEPT !.DecompressFn = fn]

\* deflateSrvMiddleware.shouldCompress
shouldCompress(d, req) ==
    IF \/ ~(\/ Contains(req.acceptEncoding, sDeflate)
            \/ TrimSpace(req.acceptEncoding) = <<"*">>)
       \/ Contains(req.connection, sUpgrade)
       \/ Contains(req.accept, sEventStream)
    THEN FALSE
    ELSE IF ExtensionsContain(d.ExcludedExtensions, Ext(RequestURI(req.uri)))
    THEN FALSE
    ELSE IF PathsContain(d.ExcludedPaths, RequestURI(req.uri))
    THEN FALSE
    ELSE IF RegexesContain(d.ExcludedPathRegexes, RequestURI(req.uri))
    THEN FALSE
    ELSE TRUE

\* app.RequestContext: the handler chain is the middleware followed by the
\* route's handler; index is the handler running; Abort moves index past
\* every handler
NumHandlers == 2
AbortIndex == 63
StatusOK == 200
StatusBadRequest == 400

NewContext(d, level, req, hbody) ==
    [opts |-> d, level |-> level, req |-> req, orig |-> req, hbody |-> hbody,
     index |-> 0, status |-> StatusOK,
     resp |-> [contentEncoding |-> << >>, vary |-> << >>, body |-> << >>,
               contentLength |-> 0],
     ran |-> FALSE, seen |-> << >>]

AbortWithError(c, code) == [c EXCEPT !.index = AbortIndex, !.status = code]

\* c.Next: whether the route's handler is run by the loop
NextRunsHandler(c) == c.index + 1 < NumHandlers

\* DefaultDecompressHandle if it replaced the body and kept the request's
\* Content-Encoding and Content-Length
DecompressBodyOnly(pool, k, c) ==
    IF Len(c.req.body) <= 0
    THEN [pool |-> pool, c |-> c]
    ELSE With(AppendInflateBytes(pool, k, << >>, c.req.body), LAMBDA r :
            IF r.err # NilErr
            THEN [pool |-> r.pool, c |-> AbortWithError(c, StatusBadRequest)]
            ELSE [pool |-> r.pool, c |-> [c EXCEPT !.req.body = r.b]])

\* DefaultDecompressHandle if it recorded the status and did not abort
DecompressWithoutAbort(pool, k, c) ==
    IF Len(c.req.body) <= 0
    THEN [pool |-> pool, c |-> c]
    ELSE With(AppendInflateBytes(pool, k, << >>, c.req.body), LAMBDA r :
            IF r.err # NilErr
            THEN [pool |-> r.pool, c |-> [c EXCEPT !.status = StatusBadRequest]]
            ELSE [pool |-> r.pool,
                  c |-> [c EXCEPT !.req.contentEncoding = << >>,
                                  !.req.hasContentLength = FALSE,
                                  !.req.body = r.b]])

\* DefaultDecompressHandle; k is what flateReaderPool.Get returns
DefaultDecompressHandle(pool, k, c) ==
    IF Len(c.req.body) <= 0
    THEN [pool |-> pool, c |-> c]
    ELSE With(AppendInflateBytes(pool, k, << >>, c.req.body), LAMBDA r :
            IF r.err # NilErr
            THEN [pool |-> r.pool, c |-> AbortWithError(c, StatusBadRequest)]
            ELSE [pool |-> r.pool,
                  c |-> [c EXCEPT !.req.contentEncoding = << >>,
                                  !.req.hasContentLength = FALSE,
                                  !.req.body = r.b]])

\* SrvMiddleware up to the call of c.Next (or its early return)
SrvBeforeNext(pool, k, c) ==
    With(IF c.opts.DecompressFn # "nil"
            /\ EqualFold(c.req.contentEncoding, sDeflate)
         THEN DefaultDecompressHandle(pool, k, c)
         ELSE [pool |-> pool, c |-> c], LAMBDA r :
        [pool |-> r.pool, c |-> r.c,
         compress |-> shouldCompress(r.c.opts, r.c.req)])

\* the route's handler: it looks at the request and writes its response
Handler(c) ==
    [c EXCEPT !.ran = TRUE,
              !.seen = <<[body |-> c.req.body,
                          contentEncoding |-> c.req.contentEncoding,
                          hasContentLength |-> c.req.hasContentLength]>>,
              !.status = StatusOK,
              !.resp.body = c.hbody,
              !.resp.contentLength = Len(c.hbody)]

\* SrvMiddleware after c.Next returned, if it compressed an empty body too
SrvAfterNextAnyBody(stacklessMap, realMap, i, c) ==
    With([c EXCEPT !.resp.contentEncoding = sDeflate,
                   !.resp.vary = sAcceptEncoding], LAMBDA c1 :
    With(AppendDeflateBytesLevel(stacklessMap, realMap, 0, i, << >>,
                                 c1.resp.body, c1.level), LAMBDA r :
        IF r.err # NilErr
        THEN [realMap |-> r.realMap, c |-> c1]
        ELSE [realMap |-> r.realMap,
              c |-> [c1 EXCEPT !.resp.body = r.b,
                               !.resp.contentLength = Len(r.b)]]))

\* SrvMiddleware after c.Next returned; i is what the Get on the real pool
\* returns
SrvAfterNext(stacklessMap, realMap, i, c) ==
    With([c EXCEPT !.resp.contentEncoding = sDeflate,
                   !.resp.vary = sAcceptEncoding], LAMBDA c1 :
        IF Len(c1.resp.body) > 0
        THEN With(AppendDeflateBytesLevel(stacklessMap, realMap, 0, i, << >>,
                                          c1.resp.body, c1.level), LAMBDA r :
                IF r.err # NilErr
                THEN [realMap |-> r.realMap, c |-> c1]
                ELSE [realMap |-> r.realMap,
                      c |-> [c1 EXCEPT !.resp.body = r.b,
                                       !.resp.contentLength = Len(r.b)]])
        ELSE [realMap |-> realMap, c |-> c1])

\* the requests: Accept-Encoding, Connection and Accept, URI,
\* Content-Encoding and body
AcceptEncodings == {sEmpty, sDeflate, sStar, sGzip, sGzipDeflate}

Upgrades == {[connection |-> sEmpty, accept |-> sEmpty],
             [connection |-> sUpgrade, accept |-> sEmpty],
             [connection |-> sEmpty, accept |-> sEventStream]}

URIs == {[path |-> <<"/">>, query |-> << >>],
         [path |-> <<"/", "a", ".", "p", "n", "g">>, query |-> << >>],
         [path |-> <<"/", "a", ".", "p", "n", "g">>, query |-> <<"v">>],
         [path |-> <<"/", "a", "p", "i", "/", "b">>, query |-> << >>],
         [path |-> <<"/", "b">>, query |-> <<"f", "=", "a", ".", "g", "i", "f">>]}

ContentEncodings == {sEmpty, sDeflateMixed}

RequestStream == ZlibStream(CompressDefaultCompression, LongestPayload)

\* no body, a stream, a stream followed by another byte, a stream cut
\* short, bytes that are no stream
RequestBodies ==
    {<< >>, RequestStream, RequestStream \o <<0>>,
     SubSeq(RequestStream, 1, Len(RequestStream) - 1), <<68, 101>>}

\* the middleware as the tests build it
SrvOptions ==
    {DefaultOptions,
     WithDecompressFn(DefaultOptions, "DefaultDecompressHandle"),
     WithExcludedPaths(
         WithDecompressFn(DefaultOptions, "DefaultDecompressHandle"),
         {<<"/", "a", "p", "i", "/">>}),
     WithExcludedPathRegexes(DefaultOptions,
         {[anchored |-> TRUE, lit |-> <<"/", "a", "p", "i">>],
          [anchored |-> FALSE, lit |-> <<"g", "i", "f">>]})}

\* what the route's handler writes
HandlerBodies == {<< >>, LongestPayload}

\* a request arrives and SrvMiddleware runs up to c.Next or to its early
\* return
SrvBegin ==
    /\ srv.pc = "none"
    /\ \E d \in SrvOptions, ae \in AcceptEncodings, up \in Upgrades,
          uri \in URIs, ce \in ContentEncodings, body \in RequestBodies,
          hbody \in HandlerBodies, k \in GetChoices(flateReaderPool) :
       \E r \in {SrvBeforeNext(flateReaderPool, k,
                    NewContext(d, DefaultCompression,
                        [uri |-> uri, acceptEncoding |-> ae,
                         connection |-> up.connection, accept |-> up.accept,
                         contentEncoding |-> ce,
                         hasContentLength |-> body # << >>, body |-> body],
                        hbody))} :
          /\ flateReaderPool' = r.pool
          /\ srv' = [pc |-> IF NextRunsHandler(r.c) THEN "handler"
                            ELSE IF r.compress THEN "afterNext" ELSE "sent",
                     inNext |-> r.compress, c |-> r.c]
    /\ UNCHANGED <<realDeflateWriterPoolMap, stacklessDeflateWriterPoolMap,
                   call, conc,
                   mw, cli>>

\* the route's handler runs, inside c.Next if the middleware called it
SrvHandler ==
    /\ srv.pc = "handler"
    /\ srv' = [srv EXCEPT !.c = Handler(srv.c),
                          !.pc = IF srv.inNext THEN "afterNext" ELSE "sent"]
    /\ UNCHANGED <<realDeflateWriterPoolMap, stacklessDeflateWriterPoolMap,
                   flateReaderPool, call, conc,
                   mw, cli>>

\* c.Next has returned: the rest of SrvMiddleware
SrvFinish ==
    /\ srv.pc = "afterNext"
    /\ \E i \in GetChoices(realDeflateWriterPoolMap[
                              normalizeCompressLevel(srv.c.level)]) :
       \E r \in {SrvAfterNext(stacklessDeflateWriterPoolMap,
                              realDeflateWriterPoolMap, i, srv.c)} :
          /\ realDeflateWriterPoolMap' = r.realMap
          /\ srv' = [srv EXCEPT !.c = r.c, !.pc = "sent"]
    /\ UNCHANGED <<stacklessDeflateWriterPoolMap, flateReaderPool, call, conc,
                   mw, cli>>

\* the response is sent; the server is ready for the next request
SrvNextRequest ==
    /\ srv.pc = "sent"
    /\ srv' = NoRequest
    /\ UNCHANGED <<realDeflateWriterPoolMap, stacklessDeflateWriterPoolMap,
                   flateReaderPool, call, conc,
                   mw, cli>>

NextSrv ==
    \/ SrvBegin
    \/ SrvHandler
    \/ SrvFinish
    \/ SrvNextRequest

SpecSrv == Init /\ [][NextSrv]_vars

\* ------------------------------------------------------------------------
\* Building middlewares: SpecOpts
\* ------------------------------------------------------------------------

\* middlewares built in one run of the program
MaxBuilt == 3

sHtml == <<".", "h", "t", "m", "l">>
sApi == <<"/", "a", "p", "i", "/">>

DefaultClientOptions ==
    [ExcludedExtensions |-> DefaultExcludedExtensions, ExcludedPaths |-> {},
     ExcludedPathRegexes |-> {}, DecompressFnForClient |-> "nil"]

WithExcludedExtensions(o, args) == [o EXCEPT !.ExcludedExtensions = args]

WithExcludedExtensionsForClient(o, args) ==
    [o EXCEPT !.ExcludedExtensions = args]

WithExcludedPathsForClient(o, args) == [o EXCEPT !.ExcludedPaths = args]

WithExcludedPathRegexesForClient(o, args) ==
    [o EXCEPT !.ExcludedPathRegexes = args]

WithDecompressFnForClient(o, fn) == [o EXCEPT !.DecompressFnForClient = fn]

\* an Option or ClientOption applied to the Options it is given
ApplyOption(o, opt) ==
    CASE opt.fn = "WithExcludedExtensions" ->
            WithExcludedExtensions(o, opt.args)
      [] opt.fn = "WithExcludedPaths" -> WithExcludedPaths(o, opt.args)
      [] opt.fn = "WithExcludedPathRegexes" ->
            WithExcludedPathRegexes(o, opt.args)
      [] opt.fn = "WithDecompressFn" -> WithDecompressFn(o, opt.args)
      [] opt.fn = "WithExcludedExtensionsForClient" ->
            WithExcludedExtensionsForClient(o, opt.args)
      [] opt.fn = "WithExcludedPathsForClient" ->
            WithExcludedPathsForClient(o, opt.args)
      [] opt.fn = "WithExcludedPathRegexesForClient" ->
            WithExcludedPathRegexesForClient(o, opt.args)
      [] opt.fn = "WithDecompressFnForClient" ->
            WithDecompressFnForClient(o, opt.args)

\* for _, fn := range opts { fn(handler.Options) }
RECURSIVE ApplyOptions(_, _)
ApplyOptions(o, opts) ==
    IF opts = << >> THEN o
    ELSE ApplyOptions(ApplyOption(o, Head(opts)), Tail(opts))

\* the option lists of the Deflate calls
SrvOptionLists ==
    << << >>,
       <<[fn |-> "WithExcludedExtensions", args |-> {sHtml}]>>,
       <<[fn |-> "WithExcludedPaths", args |-> {sApi}]>>,
       <<[fn |-> "WithDecompressFn", args |-> "DefaultDecompressHandle"]>> >>

\* the option lists of the DeflateForClient calls
ClientOptionLists ==
    << << >>,
       <<[fn |-> "WithExcludedExtensionsForClient", args |-> {sPng}]>>,
       <<[fn |-> "WithExcludedPathsForClient", args |-> {sApi}],
         [fn |-> "WithDecompressFnForClient",
          args |-> "DefaultDecompressMiddlewareForClient"]>> >>

\* the two Options objects of the package, each behind its pointer, and no
\* middleware built
InitOpts ==
    /\ realDeflateWriterPoolMap = newCompressWriterPoolMap
    /\ stacklessDeflateWriterPoolMap = newCompressWriterPoolMap
    /\ flateReaderPool = << >>
    /\ call = NoCall
    /\ conc = NoConc
    /\ srv = NoRequest
    /\ mw = [heap |-> [DefaultOptions |-> DefaultOptions,
                       DefaultClientOptions |-> DefaultClientOptions],
             built |-> << >>]
    /\ cli = NoClientRequest

\* Deflate(level, opts...): the middleware holds the pointer DefaultOptions
\* and the options are applied to what it points to
newDeflateSrvMiddleware ==
    /\ Len(mw.built) < MaxBuilt
    /\ \E n \in DOMAIN SrvOptionLists :
       \E opts \in {SrvOptionLists[n]} :
          mw' = [heap |-> [mw.heap EXCEPT
                             !.DefaultOptions = ApplyOptions(@, opts)],
                 built |-> Append(mw.built,
                              [Options |-> "DefaultOptions",
                               level |-> DefaultCompression, opts |-> opts])]
    /\ UNCHANGED <<realDeflateWriterPoolMap, stacklessDeflateWriterPoolMap,
                   flateReaderPool, call, conc, srv, cli>>

\* DeflateForClient(level, opts...): likewise with DefaultClientOptions
newDeflateClientMiddleware ==
    /\ Len(mw.built) < MaxBuilt
    /\ \E n \in DOMAIN ClientOptionLists :
       \E opts \in {ClientOptionLists[n]} :
          mw' = [heap |-> [mw.heap EXCEPT
                             !.DefaultClientOptions = ApplyOptions(@, opts)],
                 built |-> Append(mw.built,
                              [Options |-> "DefaultClientOptions",
                               level |-> DefaultCompression, opts |-> opts])]
    /\ UNCHANGED <<realDeflateWriterPoolMap, stacklessDeflateWriterPoolMap,
                   flateReaderPool, call, conc, srv, cli>>

NextOpts ==
    \/ newDeflateSrvMiddleware
    \/ newDeflateClientMiddleware

SpecOpts == InitOpts /\ [][NextOpts]_vars

\* ------------------------------------------------------------------------
\* Client middleware: SpecClient
\* ------------------------------------------------------------------------

\* deflateClientMiddleware.shouldCompress
shouldCompressForClient(d, req) ==
    IF \/ Contains(req.connection, sUpgrade)
       \/ Contains(req.accept, sEventStream)
    THEN FALSE
    ELSE IF ExtensionsContain(d.ExcludedExtensions, Ext(RequestURI(req.uri)))
    THEN FALSE
    ELSE IF PathsContain(d.ExcludedPaths, RequestURI(req.uri))
    THEN FALSE
    ELSE IF RegexesContain(d.ExcludedPathRegexes, RequestURI(req.uri))
    THEN FALSE
    ELSE TRUE

\* ClientMiddleware up to the call of next: send tells whether that call is
\* reached; i is what the Get on the real pool returns
ClientBeforeNext(stacklessMap, realMap, i, d, level, req) ==
    IF ~shouldCompressForClient(d, req)
    THEN [realMap |-> realMap, req |-> req, send |-> FALSE]
    ELSE With([req EXCEPT !.contentEncoding = sDeflate,
                          !.vary = sAcceptEncoding], LAMBDA r1 :
            IF Len(r1.body) > 0
            THEN With(AppendDeflateBytesLevel(stacklessMap, realMap, 0, i,
                                              << >>, r1.body, level),
                      LAMBDA r :
                    IF r.err # NilErr
                    THEN [realMap |-> r.realMap, req |-> r1, send |-> FALSE]
                    ELSE [realMap |-> r.realMap,
                          req |-> [r1 EXCEPT !.body = r.b,
                                             !.contentLength = Len(r.b)],
                          send |-> TRUE])
            ELSE [realMap |-> realMap, req |-> r1, send |-> TRUE])

\* DefaultDecompressMiddlewareForClient(next): the endpoint it returns
\* inflates the response and does not call next; k is what
\* flateReaderPool.Get returns
DefaultDecompressMiddlewareForClient(pool, k, resp) ==
    IF Len(resp.body) <= 0
    THEN [pool |-> pool, resp |-> resp, err |-> NilErr]
    ELSE With(AppendInflateBytes(pool, k, << >>, resp.body), LAMBDA r :
            IF r.err # NilErr
            THEN [pool |-> r.pool, resp |-> resp, err |-> r.err]
            ELSE [pool |-> r.pool,
                  resp |-> [resp EXCEPT !.contentEncoding = << >>,
                                        !.vary = << >>,
                                        !.body = r.b,
                                        !.contentLength = Len(r.b)],
                  err |-> NilErr])

\* ClientMiddleware after next returned nextErr
ClientAfterNext(pool, k, d, resp, nextErr) ==
    IF nextErr # NilErr
    THEN [pool |-> pool, resp |-> resp, err |-> nextErr]
    ELSE IF d.DecompressFnForClient # "nil"
            /\ EqualFold(resp.contentEncoding, sDeflate)
    THEN DefaultDecompressMiddlewareForClient(pool, k, resp)
    ELSE [pool |-> pool, resp |-> resp, err |-> NilErr]

\* the client middlewares as the tests build them
ClientOptionSets ==
    {ApplyOptions(DefaultClientOptions, ClientOptionLists[n]) :
        n \in DOMAIN ClientOptionLists}

\* bodies of the requests
ClientBodies == {<< >>, LongestPayload}

ErrNext == "next endpoint failed"

\* what next leaves in resp: a response with or without Content-Encoding
\* and a body, or an error
NoResponse ==
    [contentEncoding |-> << >>, vary |-> << >>, body |-> << >>,
     contentLength |-> 0]

Responses ==
    {[resp |-> [contentEncoding |-> ce, vary |-> << >>, body |-> body,
                contentLength |-> Len(body)], err |-> NilErr] :
        ce \in ContentEncodings, body \in {<< >>, RequestStream, <<68, 101>>}}
      \cup {[resp |-> NoResponse, err |-> ErrNext]}

\* the endpoint returned by ClientMiddleware is called with a request and
\* runs up to the call of next or to its early return
ClientBegin ==
    /\ cli.pc = "none"
    /\ \E d \in ClientOptionSets, up \in Upgrades, uri \in URIs,
          body \in ClientBodies,
          i \in GetChoices(realDeflateWriterPoolMap[
                              normalizeCompressLevel(DefaultCompression)]) :
       \E req \in {[uri |-> uri, connection |-> up.connection,
                    accept |-> up.accept, contentEncoding |-> << >>,
                    vary |-> << >>, body |-> body,
                    contentLength |-> Len(body)]} :
       \E r \in {ClientBeforeNext(stacklessDeflateWriterPoolMap,
                                  realDeflateWriterPoolMap, i, d,
                                  DefaultCompression, req)} :
          /\ realDeflateWriterPoolMap' = r.realMap
          /\ cli' = [pc |-> IF r.send THEN "next" ELSE "returned",
                     opts |-> d, orig |-> req, req |-> r.req,
                     nextCalls |-> 0, sent |-> << >>, resp |-> NoResponse,
                     err |-> NilErr]
    /\ UNCHANGED <<stacklessDeflateWriterPoolMap, flateReaderPool, call, conc,
                   srv, mw>>

\* next(ctx, req, resp): the request goes out and a response or an error
\* comes back
ClientNext ==
    /\ cli.pc = "next"
    /\ \E re \in Responses :
          cli' = [cli EXCEPT !.pc = "afterNext", !.nextCalls = @ + 1,
                             !.sent = Append(@, cli.req),
                             !.resp = re.resp, !.err = re.err]
    /\ UNCHANGED <<realDeflateWriterPoolMap, stacklessDeflateWriterPoolMap,
                   flateReaderPool, call, conc, srv, mw>>

\* the rest of the endpoint
ClientFinish ==
    /\ cli.pc = "afterNext"
    /\ \E k \in GetChoices(flateReaderPool) :
       \E r \in {ClientAfterNext(flateReaderPool, k, cli.opts, cli.resp,
                                 cli.err)} :
          /\ flateReaderPool' = r.pool
          /\ cli' = [cli EXCEPT !.pc = "returned", !.resp = r.resp,
                                !.err = r.err]
    /\ UNCHANGED <<realDeflateWriterPoolMap, stacklessDeflateWriterPoolMap,
                   call, conc, srv, mw>>

\* the endpoint has returned; the client is ready for the next request
ClientNextRequest ==
    /\ cli.pc = "returned"
    /\ cli' = NoClientRequest
    /\ UNCHANGED <<realDeflateWriterPoolMap, stacklessDeflateWriterPoolMap,
                   flateReaderPool, call, conc, srv, mw>>

NextClient ==
    \/ ClientBegin
    \/ ClientNext
    \/ ClientFinish
    \/ ClientNextRequest

SpecClient == Init /\ [][NextClient]_vars

\* ------------------------------------------------------------------------
\* Properties
\* ------------------------------------------------------------------------

InRange(level) == level >= -2 /\ level <= 9

\* C1: decompressing, into an empty dst, what AppendDeflateBytesLevel
\* returned for a payload at any level and after any earlier calls gives the
\* payload back with a nil error.
C1_RoundTrip ==
    (call.op = "AppendInflateBytes" /\ call.dst = << >>)
        => (call.err = NilErr /\ call.out = call.orig)

\* a round trip of the longest payload, compressed by a level-9 writer that
\* an out-of-range level left in the pool
C1_Witness ==
    /\ call.op = "AppendInflateBytes"
    /\ call.dst = << >>
    /\ call.orig = LongestPayload
    /\ call.p[2] = ZlibHeader(BestCompression)[2]
    /\ call.out = call.orig
    /\ call.err = NilErr

\* what one call on a destination of the given kind that never fails
\* delivers and returns, for every object the pools may hand out
Outcomes(kind, p, level) ==
    {With(WriteDeflateLevel(stacklessDeflateWriterPoolMap,
                            realDeflateWriterPoolMap, j, i,
                            NewDst(kind, << >>, 0), p, level),
          LAMBDA r : <<r.w.b, r.n, r.err>>) :
       j \in GetChoices(stacklessDeflateWriterPoolMap[normalizeCompressLevel(level)]),
       i \in GetChoices(realDeflateWriterPoolMap[normalizeCompressLevel(level)])}

\* C2: whatever calls came before, a call with the same payload and level
\* delivers the same bytes and returns the same (count, error) on a
\* non-blocking destination and on any other destination.
C2_PathsIdentical ==
    \A p \in Payloads, level \in Levels :
        Outcomes("bytes.Buffer", p, level) = Outcomes("other", p, level)

C4_NormalizeInBounds ==
    (call.op = "normalizeCompressLevel")
        => /\ (InRange(call.level) => call.n = call.level + 2)
           /\ (~InRange(call.level) => call.n = 8)
           /\ call.n \in 0..11
           /\ call.n \in DOMAIN realDeflateWriterPoolMap
           /\ call.n \in DOMAIN stacklessDeflateWriterPoolMap

\* a level above the range normalised to the index of level 6
C4_Witness ==
    /\ call.op = "normalizeCompressLevel"
    /\ call.level > 9
    /\ call.n = 8

\* C5, as the specification states it: an out-of-range level is normalised
\* to what the exported DefaultCompression (-1) is normalised to.
C5_EqualsExportedDefault ==
    (call.op = "normalizeCompressLevel" /\ ~InRange(call.level))
        => call.n = normalizeCompressLevel(DefaultCompression)

\* C5, amended: an out-of-range level is normalised to what the default
\* level of the package, CompressDefaultCompression (6), is normalised to;
\* that differs from what DefaultCompression (-1) is normalised to.
C5_EqualsPackageDefault ==
    (call.op = "normalizeCompressLevel" /\ ~InRange(call.level))
        => /\ call.n = normalizeCompressLevel(CompressDefaultCompression)
           /\ call.n # DefaultCompression + 2

\* a level below the range normalised to the index of level 6
C5_Witness ==
    /\ call.op = "normalizeCompressLevel"
    /\ call.level < -2
    /\ call.n = CompressDefaultCompression + 2

\* C6: a compress call with an out-of-range level, on a destination that
\* does not fail, returns a nil error, and the zlib.Writer it uses has
\* level 6.
C6_OutOfRangeUsesDefault ==
    (call.op \in DeflateOps /\ ~InRange(call.level) /\ call.failAt = 0)
        => (call.err = NilErr /\ call.zwLevel = CompressDefaultCompression)

\* C7: a decompress call with an empty input returns (0, nil), leaves the
\* destination as it was and takes no reader.
C7_EmptyInputNoOp ==
    (call.op \in InflateOps /\ call.p = << >>)
        => /\ call.n = 0
           /\ call.err = NilErr
           /\ call.out = call.dst
           /\ call.writes = 0
           /\ ~call.acquired

\* C8: what AppendDeflateBytesLevel returns is dst followed by exactly the
\* zlib stream of src, and what AppendInflateBytes returns for such a stream
\* is dst followed by exactly the bytes the stream was made from.
C8_AppendKeepsPrefix ==
    /\ (call.op = "AppendDeflateBytesLevel")
          => call.out = call.dst \o ZlibStream(call.zwLevel, call.p)
    /\ (call.op = "AppendInflateBytes")
          => call.out = call.dst \o call.orig

\* both calls on a dst that already holds a byte
C8_Witness ==
    /\ call.op \in {"AppendDeflateBytesLevel", "AppendInflateBytes"}
    /\ call.dst # << >>
    /\ call.orig = LongestPayload
    /\ Len(call.out) > Len(call.dst)
    /\ SubSeq(call.out, 1, Len(call.dst)) = call.dst

\* C9: if a Write on the destination failed during the call, in the Write
\* of the payload or in the Close that ends the stream, WriteDeflateLevel
\* returns that error.
C9_DstErrorReturned ==
    (call.op = "WriteDeflateLevel" /\ call.failAt \in 1..call.writes)
        => call.err = ErrDstWrite

\* the zlib streams of all payloads at all levels
ValidStreams == {ZlibStream(l, p) : l \in (-2)..9, p \in Payloads}

StartsWithStream(p) == \E n \in 1..Len(p) : SubSeq(p, 1, n) \in ValidStreams

\* RFC 1950: deflate with a window of at most 32K, the two bytes a multiple
\* of 31, no preset dictionary
HeaderValid(p) ==
    /\ Len(p) >= 2
    /\ p[1] % 16 = 8
    /\ p[1] \div 16 <= 7
    /\ (p[1] * 256 + p[2]) % 31 = 0
    /\ (p[2] \div 32) % 2 = 0

\* C10, as the specification states it: a non-empty input that is not a
\* complete valid zlib stream makes the decompress calls return an error.
C10_NotAStreamFails ==
    (call.op \in InflateOps /\ call.p # << >> /\ call.p \notin ValidStreams)
        => call.err # NilErr

\* C10, amended: a non-empty input that does not start with a complete valid
\* zlib stream makes the decompress calls return an error: with an invalid
\* header no reader is handed out, the count is 0 and the destination is as
\* it was; with a valid header the error comes out of the copy. Bytes after
\* a complete stream are not looked at.
C10_NoStreamPrefixFails ==
    /\ (call.op \in InflateOps) => call.err # Unmodelled
    /\ (call.op \in InflateOps /\ call.p # << >> /\ ~StartsWithStream(call.p))
          => /\ call.err # NilErr
             /\ ~HeaderValid(call.p)
                   => (call.n = 0 /\ call.out = call.dst /\ call.writes = 0
                       /\ ~call.acquired)
             /\ HeaderValid(call.p) => call.acquired
    /\ (call.op \in InflateOps /\ StartsWithStream(call.p)
          /\ call.failAt = 0)
          => call.err = NilErr

\* a stream cut short inside its body, failing in the copy
C10_Witness ==
    /\ call.op = "WriteInflate"
    /\ HeaderValid(call.p)
    /\ ~StartsWithStream(call.p)
    /\ Len(call.p) > 2
    /\ call.acquired
    /\ call.err = ErrUnexpectedEOF

\* the callers that compress into a byte slice and decompress the result
RoundTrippers == {c \in Callers : KindOf(c) \in NonBlockingKinds}

Returned == {"compressed", "copy", "done"}

\* C11: under every interleaving, each caller that compresses and then
\* decompresses its own payload gets its payload back with a nil error, and
\* what its destination received is a zlib stream of its own payload.
C11_ConcurrentRoundTrip ==
    \A c \in RoundTrippers :
        /\ (conc.pc[c] \in Returned)
              => conc.b[c] \in {ZlibStream(l, PayloadOf(c)) : l \in (-2)..9}
        /\ (conc.pc[c] = "done")
              => (conc.out[c] = PayloadOf(c) /\ conc.err[c] = NilErr)

\* where the object with identity x is: idle in a pool (a zlib.Writer also
\* inside an idle stackless writer), or held by a worker or by a caller
Places(x) ==
    UNION {{<<"realPool", n, k>> :
              k \in {kk \in DOMAIN realDeflateWriterPoolMap[n] :
                        realDeflateWriterPoolMap[n][kk].id = x}} :
           n \in DOMAIN realDeflateWriterPoolMap}
      \cup UNION {{<<"stacklessPool", n, k>> :
              k \in {kk \in DOMAIN stacklessDeflateWriterPoolMap[n] :
                        \/ stacklessDeflateWriterPoolMap[n][kk].id = x
                        \/ stacklessDeflateWriterPoolMap[n][kk].zw.id = x}} :
           n \in DOMAIN stacklessDeflateWriterPoolMap}
      \cup {<<"readerPool", 0, k>> :
              k \in {kk \in DOMAIN flateReaderPool : flateReaderPool[kk].id = x}}
      \cup {<<"worker", 0, w>> :
              w \in {ww \in 1..Workers : conc.worker[ww].zw.id = x}}
      \cup {<<"caller", 0, c>> :
              c \in {cc \in Callers :
                        \/ conc.held[cc].id = x
                        \/ /\ conc.pc[cc] \in {"swwrite", "swrelease"}
                           /\ conc.held[cc].zw.id = x}}

\* C17: under concurrent callers every writer and reader is in exactly one
\* place, idle in one pool or held by one operation, never in two; the only
\* objects in no place are readers whose reset onto a new source failed.
C17_ExclusiveOwnership ==
    \A x \in 1..(3 * NumCallers) :
        /\ Cardinality(Places(x)) <= 1
        /\ x \in conc.made \ conc.lost => Cardinality(Places(x)) = 1
        /\ x \notin conc.made => Places(x) = {}

\* a worker and two callers hold objects at the same time while another
\* writer is idle in a pool
C17_Witness ==
    /\ \E w \in 1..Workers : conc.worker[w].zw.id # 0
    /\ \E c \in Callers : conc.pc[c] = "copy"
    /\ \E c \in Callers : conc.pc[c] = "swrelease"
    /\ \E n \in DOMAIN realDeflateWriterPoolMap :
          realDeflateWriterPoolMap[n] # << >>

\* C18: every writer idle in pool index i, and the zlib.Writer inside an
\* idle stackless writer, was created for a call of normalised level i, and
\* the idle writer was last released by a call of normalised level i.
C18_PoolIndexInvariant ==
    \A n \in 0..(NumPools - 1) :
        /\ \A k \in DOMAIN realDeflateWriterPoolMap[n] :
              /\ realDeflateWriterPoolMap[n][k].born = n
              /\ realDeflateWriterPoolMap[n][k].rel = n
        /\ \A k \in DOMAIN stacklessDeflateWriterPoolMap[n] :
              /\ stacklessDeflateWriterPoolMap[n][k].born = n
              /\ stacklessDeflateWriterPoolMap[n][k].rel = n
              /\ stacklessDeflateWriterPoolMap[n][k].zw.born = n

\* writers of level 9 idle in two pools: in pool 8, inside a stackless
\* writer that took it from the real pool where a call with level 10 had
\* left it, and in pool 11
C18_Witness ==
    /\ \E k \in DOMAIN stacklessDeflateWriterPoolMap[8] :
          stacklessDeflateWriterPoolMap[8][k].zw.level = BestCompression
    /\ \E k \in DOMAIN realDeflateWriterPoolMap[11] :
          realDeflateWriterPoolMap[11][k].level = BestCompression

\* C20: a compress call on a non-blocking destination returns only after
\* its job has run on a worker; no job is given up.
C20_NoJobDropped ==
    \A c \in RoundTrippers : (conc.pc[c] \in Returned) => conc.ran[c]

\* the request's Accept-Encoding allows deflate
AllowsDeflate(req) ==
    \/ Contains(req.acceptEncoding, sDeflate)
    \/ TrimSpace(req.acceptEncoding) = <<"*">>

\* the path has an excluded extension, starts with an excluded prefix or
\* matches an excluded regex
PathExcluded(d, path) ==
    \/ Ext(path) \in d.ExcludedExtensions
    \/ \E pre \in d.ExcludedPaths : HasPrefix(path, pre)
    \/ \E reg \in d.ExcludedPathRegexes : MatchString(reg, path)

\* the response has been sent and the route's handler wrote it
HandlerResponded == srv.pc = "sent" /\ srv.c.ran

\* C12: a request that allows deflate, is no upgrade and no event stream and
\* whose path matches no exclusion, answered by the handler with a non-empty
\* body, gets Content-Encoding: deflate, Vary: Accept-Encoding, the
\* compressed handler body and its length as Content-Length.
C12_CompressingCase ==
    ( /\ HandlerResponded
      /\ AllowsDeflate(srv.c.orig)
      /\ ~Contains(srv.c.orig.connection, sUpgrade)
      /\ ~Contains(srv.c.orig.accept, sEventStream)
      /\ ~PathExcluded(srv.c.opts, srv.c.orig.uri.path)
      /\ srv.c.hbody # << >> )
    => /\ srv.c.resp.contentEncoding = sDeflate
       /\ srv.c.resp.vary = sAcceptEncoding
       /\ srv.c.resp.body = ZlibStream(srv.c.level, srv.c.hbody)
       /\ srv.c.resp.contentLength = Len(srv.c.resp.body)

\* C13: a request that does not allow deflate, or whose path matches an
\* exclusion, gets the handler's body and Content-Length and neither
\* Content-Encoding nor Vary.
C13_NonCompressingCase ==
    ( /\ HandlerResponded
      /\ \/ ~AllowsDeflate(srv.c.orig)
         \/ PathExcluded(srv.c.opts, srv.c.orig.uri.path) )
    => /\ srv.c.resp.body = srv.c.hbody
       /\ srv.c.resp.contentLength = Len(srv.c.hbody)
       /\ srv.c.resp.contentEncoding = << >>
       /\ srv.c.resp.vary = << >>

\* a DecompressFn is configured and the request says Content-Encoding:
\* deflate in any case of letters
DecompressApplies ==
    /\ srv.pc # "none"
    /\ srv.c.opts.DecompressFn # "nil"
    /\ EqualFold(srv.c.orig.contentEncoding, sDeflate)

\* body is the stream of payload at some level
IsStreamOf(body, payload) == \E l \in (-2)..9 : body = ZlibStream(l, payload)

\* C14: with a DecompressFn and Content-Encoding: deflate on a valid
\* non-empty stream, the handler is reached, and from the moment it is about
\* to run the request has the inflated body and neither Content-Encoding nor
\* Content-Length; that is the request the handler sees.
C14_DecompressBeforeHandler ==
    (DecompressApplies /\ srv.c.orig.body \in ValidStreams)
    => /\ srv.pc = "handler" \/ srv.c.ran
       /\ IsStreamOf(srv.c.orig.body, srv.c.req.body)
       /\ srv.c.req.contentEncoding = << >>
       /\ ~srv.c.req.hasContentLength
       /\ srv.c.ran =>
            /\ IsStreamOf(srv.c.orig.body, srv.c.seen[1].body)
            /\ srv.c.seen[1].contentEncoding = << >>
            /\ ~srv.c.seen[1].hasContentLength

\* the handler has seen the payload of a request that arrived as a stream
\* with Content-Encoding: Deflate
C14_Witness ==
    /\ DecompressApplies
    /\ srv.c.orig.contentEncoding = sDeflateMixed
    /\ srv.c.orig.body = RequestStream
    /\ srv.c.ran
    /\ srv.c.seen[1].body = LongestPayload

\* the status is 400, the handler has not run and the request body is as
\* it arrived
Rejected ==
    /\ srv.c.status = StatusBadRequest
    /\ ~srv.c.ran
    /\ srv.pc # "handler"
    /\ srv.c.req.body = srv.c.orig.body

\* C15 as stated: with a DecompressFn and Content-Encoding: deflate, a
\* non-empty body that is not a valid stream gets status 400, the handler is
\* never invoked and the request body is unchanged.
C15_InvalidBodyRejected ==
    ( /\ DecompressApplies
      /\ srv.c.orig.body # << >>
      /\ srv.c.orig.body \notin ValidStreams )
    => Rejected

\* C15: with a DecompressFn and Content-Encoding: deflate, a non-empty body
\* that does not begin with a complete valid stream gets status 400, the
\* handler is never invoked and the request body is unchanged, whatever the
\* other headers are.
C15_NoStreamPrefixRejected ==
    ( /\ DecompressApplies
      /\ srv.c.orig.body # << >>
      /\ ~StartsWithStream(srv.c.orig.body) )
    => Rejected

\* a request with Accept-Encoding: deflate and a body that is no stream has
\* been answered with status 400 after the middleware called c.Next
C15_Witness ==
    /\ DecompressApplies
    /\ srv.pc = "sent"
    /\ srv.inNext
    /\ srv.c.orig.acceptEncoding = sDeflate
    /\ srv.c.orig.body = <<68, 101>>
    /\ srv.c.status = StatusBadRequest
    /\ ~srv.c.ran

\* C16: a decompress call puts back the reader it took from the pool or
\* constructed, on every exit path: no call leaves fewer readers idle in the
\* pool than it found, and a call that got a reader leaves at least one.
C16_ReaderPutBack ==
    [][(call' # call /\ call'.op \in InflateOps)
         => /\ Len(flateReaderPool') >= Len(flateReaderPool)
            /\ call'.acquired => Len(flateReaderPool') >= 1]_vars

\* C19: a compress call that finds an idle writer in the pool of its level,
\* and so reuses it, gives its destination exactly the stream a fresh writer
\* of that writer's level makes of its own payload; a decompress call that
\* finds an idle reader gives exactly the bytes its own source was made from.
C19_ResetBeforeReuse ==
    [][/\ ( /\ call'.op \in DeflateOps
            /\ call'.failAt = 0
            /\ \/ realDeflateWriterPoolMap[
                      normalizeCompressLevel(call'.level)] # << >>
               \/ stacklessDeflateWriterPoolMap[
                      normalizeCompressLevel(call'.level)] # << >> )
          => /\ call'.err = NilErr
             /\ call'.out = call'.dst \o ZlibStream(call'.zwLevel, call'.p)
       /\ (call'.op \in InflateOps /\ flateReaderPool # << >>)
          => /\ call'.err = NilErr
             /\ call'.out = call'.dst \o call'.orig]_vars

\* a call at level 6 on a failure-free destination has written the stream of
\* the longest payload through a writer of level 9: one that an earlier call
\* at level 10 had left idle in pool 8
C19_Witness ==
    /\ call.op = "WriteDeflateLevel"
    /\ call.failAt = 0
    /\ call.level = CompressDefaultCompression
    /\ call.zwLevel = BestCompression
    /\ call.p = LongestPayload
    /\ call.out = ZlibStream(BestCompression, LongestPayload)

\* C21: the codec writer of a call on a non-blocking destination runs on
\* the caller itself: no background worker ever has the job of such a call.
C21_NonBlockingRunsOnCaller ==
    \A w \in 1..Workers :
        conc.worker[w].job # 0
            => KindOf(conc.worker[w].job) \notin NonBlockingKinds

\* C22: once a compress call has returned, its destination holds the whole
\* finalized stream of its payload.
C22_CompleteBeforeReturn ==
    \A c \in Callers :
        conc.pc[c] \in (IF KindOf(c) \in NonBlockingKinds THEN Returned
                        ELSE {"done"})
            => IsStreamOf(conc.b[c], PayloadOf(c))

\* the error with which the reader of the last decompress call was closed
\* and put back
ReaderCloseErr == flateReaderPool[Len(flateReaderPool)].err

\* C23: when the payload write of WriteDeflateLevel fails and the Close of
\* the writer fails too, and when the copy of WriteInflate fails on the
\* destination and the Close of the reader fails too, the call returns the
\* error of the write or of the copy, not that of the Close.
C23_OriginalErrorReturned ==
    /\ ( /\ call.op = "WriteDeflateLevel"
         /\ call.kind = "broken"
         /\ call.closeErr # NilErr )
       => call.err = ErrDstWrite
    /\ ( /\ call.op = "WriteInflate"
         /\ call.acquired
         /\ call.failAt \in 1..call.writes
         /\ ReaderCloseErr # NilErr )
       => call.err = ErrDstWrite

\* a WriteInflate whose destination failed in the copy and whose reader was
\* closed with a checksum error, while writers whose payload write and Close
\* both failed are idle in a pool
C23_Witness ==
    /\ call.op = "WriteInflate"
    /\ call.acquired
    /\ call.failAt \in 1..call.writes
    /\ call.err = ErrDstWrite
    /\ ReaderCloseErr = ErrChecksum
    /\ \E n \in DOMAIN stacklessDeflateWriterPoolMap :
          stacklessDeflateWriterPoolMap[n] # << >>

\* C24: when c.Next returns to a middleware that decided to compress and
\* the response body is empty, the middleware sets Content-Encoding: deflate
\* and Vary: Accept-Encoding, leaves the body empty with Content-Length 0
\* and takes no writer from the pools.
C24_EmptyBodyNotCompressed ==
    [][(srv.pc = "afterNext" /\ srv.c.resp.body = << >>)
         => /\ srv'.pc = "sent"
            /\ srv'.c.resp = [contentEncoding |-> sDeflate,
                              vary |-> sAcceptEncoding,
                              body |-> << >>, contentLength |-> 0]
            /\ realDeflateWriterPoolMap' = realDeflateWriterPoolMap]_vars

\* the response to a request that was compressible, whose handler ran and
\* wrote no body, on a server that has not compressed anything yet
C24_Witness ==
    /\ srv.pc = "sent"
    /\ srv.inNext
    /\ srv.c.ran
    /\ srv.c.hbody = << >>
    /\ srv.c.status = StatusOK
    /\ srv.c.resp.contentEncoding = sDeflate
    /\ srv.c.resp.vary = sAcceptEncoding
    /\ srv.c.resp.body = << >>
    /\ srv.c.resp.contentLength = 0
    /\ realDeflateWriterPoolMap = newCompressWriterPoolMap

\* the Options a middleware works with
OptionsOf(m) == mw.heap[m.Options]

\* the Options a middleware would have if the options of its own
\* constructor call, and no others, had been applied to the defaults
OwnOptions(m) ==
    ApplyOptions(IF m.Options = "DefaultOptions" THEN DefaultOptions
                 ELSE DefaultClientOptions, m.opts)

\* C25: after any sequence of constructor calls every middleware has the
\* defaults changed by the options of its own constructor call only; one
\* built with no options excludes exactly the default extensions.
C25_OptionIsolation ==
    \A k \in DOMAIN mw.built : OptionsOf(mw.built[k]) = OwnOptions(mw.built[k])

\* the request's path matches an exclusion of the client middleware, or the
\* request is an upgrade or asks for an event stream
ExcludedForClient(d, req) ==
    \/ Contains(req.connection, sUpgrade)
    \/ Contains(req.accept, sEventStream)
    \/ PathExcluded(d, req.uri.path)

\* C26: when the endpoint returned by ClientMiddleware has returned, next
\* has been invoked exactly once: with the request as it came if the request
\* is excluded from compression, and otherwise with the request carrying
\* Content-Encoding: deflate, Vary: Accept-Encoding and the compressed body.
C26_NextInvokedOnce ==
    cli.pc = "returned"
        => /\ cli.nextCalls = 1
           /\ Len(cli.sent) = 1
           /\ IF ExcludedForClient(cli.opts, cli.orig)
              THEN cli.sent[1] = cli.orig
              ELSE /\ cli.sent[1].contentEncoding = sDeflate
                   /\ cli.sent[1].vary = sAcceptEncoding
                   /\ cli.sent[1].body =
                         IF cli.orig.body = << >> THEN << >>
                         ELSE ZlibStream(DefaultCompression, cli.orig.body)

\* the level of the writer a compress call at the given level uses when
\* the pools are empty
FreshLevel(level) ==
    acquireRealDeflateWriter(newCompressWriterPoolMap, 0, "call", level).zw.level

\* C27: whatever calls came before, a compress call at level l uses a writer
\* of the level such a call uses on empty pools, and the writers idle in one
\* pool of realDeflateWriterPoolMap all have the same level.
C27_HistoryIndependentLevel ==
    /\ call.op \in DeflateOps => call.zwLevel = FreshLevel(call.level)
    /\ \A n \in DOMAIN realDeflateWriterPoolMap :
          \A k1, k2 \in DOMAIN realDeflateWriterPoolMap[n] :
              realDeflateWriterPoolMap[n][k1].level
                  = realDeflateWriterPoolMap[n][k2].level

====
